---- MODULE Spec2Model ----
(***************************************************************************)
(* Reelflow: short-form video sharing server.                              *)
(*                                                                         *)
(* Seventeen specifications share one store:                               *)
(*   Spec        the upload routes of the direct-access route set          *)
(*               (POST /api/videos, POST /api/videos/metadata) with the    *)
(*               VideoValidator pipeline, S3 and the videos table;         *)
(*   SpecDemo    the same with POST /api/admin/upload-demo-videos;         *)
(*   SpecCheck   the same with calls of checkIfEducational, which deletes  *)
(*               objects from the bucket;                                  *)
(*   SpecSocial  concurrent like / view / comment requests against the     *)
(*               relational storage layer (DatabaseStorage);               *)
(*   SpecLikeRace overlapping like requests with the INSERT of likeVideo   *)
(*               as storage.ts issues it;                                  *)
(*   SpecReplit  the route set behind Replit auth: logins, video creation, *)
(*               like / view / comment requests of signed-in users;        *)
(*   SpecComment its comment route alone, with logins and video creation;  *)
(*   SpecSeq     the same requests served one after another, together      *)
(*               with video creation;                                      *)
(*   SpecFeed    the listings GET /api/videos and                          *)
(*               GET /api/videos/user/:userId and their pagination;        *)
(*   SpecFollow  POST /api/users/:id/follow;                               *)
(*   SpecAuth    the authenticated route set (Google OAuth, likes and      *)
(*               comments in DynamoDB, VideoValidationService);            *)
(*   SpecDyn     overlapping like requests of the authenticated route set  *)
(*               against the DynamoDB likes table;                         *)
(*   SpecGet     the same with GET /api/videos/:id served meanwhile;       *)
(*   SpecUrl     POST /api/get-video-url and the CloudFront URL helpers;   *)
(*   SpecSync    overlapping POST /api/sync-s3-videos requests;            *)
(*   SpecClient  the client feed (VideoFeed and VideoItem playback);       *)
(*   SpecLikeUi  the like button of VideoItem in several client sessions.  *)
(* Every awaited external call (ffprobe, Deepgram, Gemini, S3, one SQL     *)
(* statement) is one atomic step; the synchronous code between two awaits  *)
(* belongs to the step that precedes it.                                   *)
(***************************************************************************)
EXTENDS Integers, Sequences, FiniteSets, TLC

VARIABLES env, bucket, nextKey, videos, upl, likes, comments, nextRowId, soc,
          users, feed, follows, fol, areq, dlikes, dcomments, dyn, awsRegion, urlq, sync, cl,
          ses, demo

vars == <<env, bucket, nextKey, videos, upl, likes, comments, nextRowId, soc,
          users, feed, follows, fol, areq, dlikes, dcomments, dyn, awsRegion, urlq, sync, cl,
          ses, demo>>

uploadVars == <<env, bucket, nextKey, upl>>
socialVars == <<likes, comments, nextRowId, soc>>
feedVars == <<users, feed>>
followVars == <<follows, fol>>
authVars == <<areq, dlikes, dcomments>>
lateVars == <<dyn, awsRegion, urlq, sync, cl, ses, demo>>
restVars == <<feedVars, followVars, authVars, lateVars>>

(***************************************************************************)
(* Bounds of the model.                                                    *)
(***************************************************************************)
MaxVideos == 2        \* cap on rows of the videos table in Spec
MaxObjects == 2       \* cap on objects put into the bucket in Spec
NumVideos == 1        \* videos that exist when SpecSocial starts
NumSocialReqs == 3    \* social requests issued in one behaviour of SpecSocial
MaxFeedVideos == 3    \* cap on rows of the videos table in SpecFeed
MaxQueryNumber == 4   \* largest number sent as ?limit= or ?offset=
NumFollowReqs == 3    \* follow requests issued in one behaviour of SpecFollow
MaxComments == 2      \* cap on comments put into DynamoDB in SpecAuth
MaxAuthReqs == 3      \* requests served in one behaviour of SpecAuth
NumDynReqs == 3       \* like requests issued in one behaviour of SpecDyn
NumSyncReqs == 2      \* sync requests issued in one behaviour of SpecSync
MaxSyncKeys == 2      \* cap on video objects in the bucket in SpecSync
MaxClientVideos == 3  \* cap on videos the client feed shows in SpecClient
NumSessions == 2      \* client sessions of the one anonymous user in SpecLikeUi
NumDemoReqs == 1      \* demo upload requests served in one behaviour of SpecDemo
MaxPageLoads == 2     \* loads of the page by one client session in SpecLikeUi

(***************************************************************************)
(* Program constants.                                                      *)
(***************************************************************************)
MAX_DURATION_SECONDS == 60
MAX_FILE_SIZE_BYTES == 10 * 1024 * 1024
MULTER_LIMIT_EDU == 10 * 1024 * 1024
MULTER_LIMIT_S3 == 500 * 1024 * 1024

NoKey == 0
NoDuration == -1
NoStatus == 0

(***************************************************************************)
(* Inputs.  Durations are what ffprobe measures, in tenths of a second.    *)
(***************************************************************************)
FileSizes == {MAX_FILE_SIZE_BYTES, MAX_FILE_SIZE_BYTES + 1}
Durations10 == {600, 604, 605}
Transcripts == {<<>>, <<" ">>, <<" ", "a">>}

(***************************************************************************)
(* Pure helpers.                                                           *)
(***************************************************************************)
\* Math.round of a non-negative duration given in tenths of a second.
MathRound10(d10) == (d10 + 5) \div 10

RECURSIVE TrimStart(_)
TrimStart(s) ==
  IF s = <<>> THEN <<>>
  ELSE IF Head(s) = " " THEN TrimStart(Tail(s)) ELSE s

RECURSIVE TrimEnd(_)
TrimEnd(s) ==
  IF s = <<>> THEN <<>>
  ELSE IF s[Len(s)] = " " THEN TrimEnd(SubSeq(s, 1, Len(s) - 1)) ELSE s

\* A variant of Trim that removes nothing.
TrimKeepsBlanks(s) == s

\* String.prototype.trim over a transcript (a sequence of characters).
Trim(s) == TrimEnd(TrimStart(s))

NoTranscript == <<"undefined">>

(***************************************************************************)
(* VideoValidator.validateVideo, statement by statement.                   *)
(***************************************************************************)
\* The result object as constructed on entry.
NewResult(size) ==
  [isValid |-> TRUE, errors |-> <<>>, fileSize |-> size,
   duration |-> NoDuration, transcript |-> NoTranscript, analysis |-> "none"]

\* "Check file size".
SizeCheck(res) ==
  IF res.fileSize > MAX_FILE_SIZE_BYTES
    THEN [res EXCEPT !.isValid = FALSE, !.errors = Append(@, "size")]
    ELSE res

\* getVideoDuration: what the promise resolves with.
GetVideoDuration(d10) == MathRound10(d10)

\* A variant of DurationCheck that records the error and leaves isValid as it
\* is.
DurationCheckKeepsValid(res, duration) ==
  LET r1 == [res EXCEPT !.duration = duration]
  IN IF duration > MAX_DURATION_SECONDS
       THEN [r1 EXCEPT !.errors = Append(@, "duration")]
       ELSE r1

\* result.duration = duration, then the duration check.
DurationCheck(res, duration) ==
  LET r1 == [res EXCEPT !.duration = duration]
  IN IF duration > MAX_DURATION_SECONDS
       THEN [r1 EXCEPT !.isValid = FALSE, !.errors = Append(@, "duration")]
       ELSE r1

\* Both AI services have their API key.
AiConfigured == env.deepgram /\ env.gemini

\* The branch taken when an AI service is not configured.
NotConfigured(res) == [res EXCEPT !.errors = Append(@, "not_configured")]

\* What the Deepgram API can answer: an error (or a thrown SDK call), or a
\* transcript.
DeepgramResponses ==
  {[error |-> TRUE, transcript |-> <<>>]}
    \cup {[error |-> FALSE, transcript |-> t] : t \in Transcripts}

\* What the Gemini API can answer: no usable JSON ("error") or a verdict.
GeminiResponses == {"error", "educational", "not_educational"}

\* DeepgramService.transcribeVideo on the API response resp.
TranscribeVideo(resp) ==
  IF resp.error THEN [threw |-> TRUE, transcript |-> NoTranscript]
  ELSE IF Trim(resp.transcript) = <<>> THEN [threw |-> TRUE, transcript |-> NoTranscript]
  ELSE [threw |-> FALSE, transcript |-> resp.transcript]

\* result.transcript = transcript, then the no-speech check.
TranscriptCheck(res, transcript) ==
  LET r1 == [res EXCEPT !.transcript = transcript]
  IN IF Trim(transcript) = <<>>
       THEN [r1 EXCEPT !.isValid = FALSE, !.errors = Append(@, "no_speech")]
       ELSE r1

\* GeminiService.analyzeEducationalContent on the API response.
AnalyzeEducationalContent(resp) ==
  IF resp = "error" THEN [threw |-> TRUE, analysis |-> "none"]
  ELSE [threw |-> FALSE, analysis |-> resp]

\* A variant of EducationalCheck that records the verdict and never rejects.
EducationalCheckNoReject(res, analysis) == [res EXCEPT !.analysis = analysis]

\* result.educationalAnalysis = analysis, then the is_educational check.
EducationalCheck(res, analysis) ==
  LET r1 == [res EXCEPT !.analysis = analysis]
  IN IF analysis # "educational"
       THEN [r1 EXCEPT !.isValid = FALSE, !.errors = Append(@, "not_educational")]
       ELSE r1

\* A variant of ValidateCatch that records the error and leaves isValid as it is.
ValidateCatchKeepsValid(res) ==
  [threw |-> FALSE, result |-> [res EXCEPT !.errors = Append(@, "validation_failed")]]

\* A variant of ValidateCatch that lets the error escape validateVideo.
ValidateCatchRethrows(res) == [threw |-> TRUE, result |-> res]

\* The catch block: which outcome validateVideo ends with after a throw.
ValidateCatch(res) ==
  [threw |-> FALSE,
   result |-> [res EXCEPT !.isValid = FALSE, !.errors = Append(@, "validation_failed")]]

\* A normal return of the result.
ValidateReturn(res) == [threw |-> FALSE, result |-> res]

(***************************************************************************)
(* One upload request (a slot of upl).                                     *)
(***************************************************************************)
\* No answer from Deepgram yet.
NoResponse == [error |-> FALSE, transcript |-> NoTranscript]

NoCalls == [probe |-> 0, transcribe |-> 0, classify |-> 0, s3put |-> 0, insert |-> 0]

IdleUpload ==
  [kind |-> "idle", pc |-> "idle", size |-> 0, dur10 |-> 0, isPublic |-> FALSE,
   bodyKey |-> NoKey, result |-> NewResult(0), returned |-> FALSE, dg |-> NoResponse,
   calls |-> NoCalls, failed |-> "none", key |-> NoKey, status |-> NoStatus]

\* res.status(code).json(...): the request is answered.
Respond(q, code) == [q EXCEPT !.pc = "responded", !.status = code]

\* A variant of RouteCatch that leaves the request at the failed step, which
\* then runs again.
RouteCatchRetries(q) == q

\* The catch block of the route handler (a ZodError is answered 400 elsewhere).
RouteCatch(q) == Respond(q, 500)

\* S3Service.isConfigured().
S3IsConfigured == env.s3

\* The route after `validationResult = await VideoValidator.validateVideo(...)`:
\* reject with 400, or go on to the S3 upload, or 400 when S3 is not configured.
RouteAfterValidation(q, res) ==
  LET q1 == [q EXCEPT !.result = res, !.returned = TRUE]
  IN IF ~res.isValid THEN Respond(q1, 400)
     ELSE IF S3IsConfigured THEN [q1 EXCEPT !.pc = "s3put"]
     ELSE Respond(q1, 400)

\* How the await of validateVideo ends in the route.
RouteOnValidation(q, out) ==
  IF out.threw THEN RouteCatch([q EXCEPT !.result = out.result])
  ELSE RouteAfterValidation(q, out.result)

\* storage.createVideo: the row inserted for request q.
NewVideoRow(q) ==
  [id |-> Len(videos) + 1, userId |-> "anonymous",
   s3Key |-> IF q.kind = "metadata" THEN q.bodyKey ELSE q.key,
   duration |-> IF q.returned THEN q.result.duration ELSE NoDuration,
   isPublic |-> q.isPublic, viewCount |-> 0, likeCount |-> 0, commentCount |-> 0]

\* multer's fileSize limit rejects the request before the handler runs.
MulterRejects(size) == size > env.multerLimit

(***************************************************************************)
(* Actions of the upload routes.                                           *)
(***************************************************************************)
\* POST /api/videos with a file: multer, then validateVideo up to its first
\* await (the size check).
ReceiveFile(r) ==
  /\ upl[r].pc = "idle"
  /\ Len(videos) < MaxVideos
  /\ nextKey <= MaxObjects
  /\ \E size \in FileSizes, d \in Durations10, pub \in BOOLEAN :
       LET q == [IdleUpload EXCEPT !.kind = "file", !.size = size, !.dur10 = d,
                                   !.isPublic = pub]
       IN upl' = [upl EXCEPT ![r] =
                    IF MulterRejects(size) THEN Respond(q, 500)
                    ELSE [q EXCEPT !.pc = "probe", !.result = SizeCheck(NewResult(size))]]
  /\ UNCHANGED <<env, bucket, nextKey, videos, socialVars, restVars>>

\* POST /api/videos with body.videoUrl and no file: validation is skipped.
ReceiveUrl(r) ==
  /\ upl[r].pc = "idle"
  /\ Len(videos) < MaxVideos
  /\ \E pub \in BOOLEAN :
       upl' = [upl EXCEPT ![r] =
                 [IdleUpload EXCEPT !.kind = "url", !.isPublic = pub, !.pc = "insert"]]
  /\ UNCHANGED <<env, bucket, nextKey, videos, socialVars, restVars>>

\* POST /api/videos with neither a file nor a videoUrl.
ReceiveNothing(r) ==
  /\ upl[r].pc = "idle"
  /\ upl' = [upl EXCEPT ![r] = Respond([IdleUpload EXCEPT !.kind = "none"], 400)]
  /\ UNCHANGED <<env, bucket, nextKey, videos, socialVars, restVars>>

\* POST /api/videos/metadata: the body names the videoUrl and the s3Key.
ReceiveMetadata(r) ==
  /\ upl[r].pc = "idle"
  /\ Len(videos) < MaxVideos
  /\ \E hasUrl \in BOOLEAN, k \in 0..MaxObjects, pub \in BOOLEAN :
       LET q == [IdleUpload EXCEPT !.kind = "metadata", !.bodyKey = k, !.isPublic = pub]
       IN upl' = [upl EXCEPT ![r] =
                    IF hasUrl THEN [q EXCEPT !.pc = "insert"] ELSE Respond(q, 400)]
  /\ UNCHANGED <<env, bucket, nextKey, videos, socialVars, restVars>>

\* await getVideoDuration, then the duration check, the early return and the
\* configuration check.
Probe(r) ==
  LET q == [upl[r] EXCEPT !.calls.probe = @ + 1]
  IN /\ upl[r].pc = "probe"
     /\ \E ok \in BOOLEAN :
          upl' = [upl EXCEPT ![r] =
            IF ~ok
              THEN RouteOnValidation([q EXCEPT !.failed = "probe"], ValidateCatch(q.result))
              ELSE LET res == DurationCheck(q.result, GetVideoDuration(q.dur10))
                   IN IF ~res.isValid THEN RouteOnValidation(q, ValidateReturn(res))
                      ELSE IF ~AiConfigured
                        THEN RouteOnValidation(q, ValidateReturn(NotConfigured(res)))
                      ELSE [q EXCEPT !.result = res, !.pc = "transcribe"]]
     /\ UNCHANGED <<env, bucket, nextKey, videos, socialVars, restVars>>

\* await DeepgramService.transcribeVideo, then the no-speech check.
Transcribe(r) ==
  /\ upl[r].pc = "transcribe"
  /\ \E resp \in DeepgramResponses :
       LET q == [upl[r] EXCEPT !.calls.transcribe = @ + 1, !.dg = resp]
           t == TranscribeVideo(resp)
       IN upl' = [upl EXCEPT ![r] =
            IF t.threw
              THEN RouteOnValidation([q EXCEPT !.failed = "transcribe"],
                                     ValidateCatch(q.result))
              ELSE LET res == TranscriptCheck(q.result, t.transcript)
                   IN IF ~res.isValid THEN RouteOnValidation(q, ValidateReturn(res))
                      ELSE [q EXCEPT !.result = res, !.pc = "classify"]]
  /\ UNCHANGED <<env, bucket, nextKey, videos, socialVars, restVars>>

\* await GeminiService.analyzeEducationalContent, then the verdict check and
\* the return of the result.
Classify(r) ==
  LET q == [upl[r] EXCEPT !.calls.classify = @ + 1]
  IN /\ upl[r].pc = "classify"
     /\ \E resp \in GeminiResponses :
          LET a == AnalyzeEducationalContent(resp)
          IN upl' = [upl EXCEPT ![r] =
               IF a.threw
                 THEN RouteOnValidation([q EXCEPT !.failed = "classify"],
                                        ValidateCatch(q.result))
                 ELSE RouteOnValidation(q, ValidateReturn(EducationalCheck(q.result, a.analysis)))]
     /\ UNCHANGED <<env, bucket, nextKey, videos, socialVars, restVars>>

\* A variant of UploadVideo that swallows a failed PutObject.
UploadVideoSwallowsError(sent) ==
  [threw |-> FALSE, key |-> nextKey, stored |-> sent]

\* S3Service.uploadVideo: the key is fresh (nanoid); sent tells whether the
\* PutObject succeeded.
UploadVideo(sent) ==
  IF sent THEN [threw |-> FALSE, key |-> nextKey, stored |-> TRUE]
  ELSE [threw |-> TRUE, key |-> NoKey, stored |-> FALSE]

\* await S3Service.uploadVideo in the route.
S3Put(r) ==
  LET q == [upl[r] EXCEPT !.calls.s3put = @ + 1]
  IN /\ upl[r].pc = "s3put"
     /\ \E sent \in BOOLEAN :
          LET u == UploadVideo(sent)
          IN /\ bucket' = IF u.stored THEN bucket \cup {nextKey} ELSE bucket
             /\ nextKey' = IF u.stored THEN nextKey + 1 ELSE nextKey
             /\ upl' = [upl EXCEPT ![r] =
                  IF u.threw THEN RouteCatch([q EXCEPT !.failed = "s3put"])
                  ELSE [q EXCEPT !.key = u.key, !.pc = "insert"]]
     /\ UNCHANGED <<env, videos, socialVars, restVars>>

\* insertVideoSchema.parse, await storage.createVideo and the 201 answer.
Insert(r) ==
  LET q == [upl[r] EXCEPT !.calls.insert = @ + 1]
  IN /\ upl[r].pc = "insert"
     /\ \E ok \in BOOLEAN :
          IF ok
            THEN /\ videos' = Append(videos, NewVideoRow(q))
                 /\ upl' = [upl EXCEPT ![r] = Respond(q, 201)]
            ELSE /\ videos' = videos
                 /\ upl' = [upl EXCEPT ![r] = RouteCatch([q EXCEPT !.failed = "insert"])]
     /\ UNCHANGED <<env, bucket, nextKey, socialVars, restVars>>

\* The answered request leaves the server.
FinishUpload(r) ==
  /\ upl[r].pc = "responded"
  /\ upl' = [upl EXCEPT ![r] = IdleUpload]
  /\ UNCHANGED <<env, bucket, nextKey, videos, socialVars, restVars>>

(***************************************************************************)
(* The relational storage layer (DatabaseStorage) and the social routes.   *)
(***************************************************************************)
Users == {"anonymous", "u1"}
SocialReqs == 1..NumSocialReqs
RequestVideoIds == 1..(NumVideos + 1)

VideoExists(vs, vid) == vid \in 1..Len(vs)

LikesOf(vid) == {l \in likes : l.videoId = vid}
CommentsOf(vid) == {c \in comments : c.videoId = vid}

IdleSocial ==
  [kind |-> "idle", pc |-> "idle", userId |-> "anonymous", vid |-> 0,
   isLiked |-> FALSE, deleted |-> 0, status |-> NoStatus, liked |-> FALSE]

\* Requests are numbered in the order in which the server receives them.
NextToArrive(r) ==
  /\ soc[r].pc = "idle"
  /\ \A p \in SocialReqs : p < r => soc[p].pc # "idle"

\* A variant of IsVideoLiked that looks for a like row of any user.
IsVideoLikedByAnyone(userId, vid) ==
  \E l \in likes : l.videoId = vid

\* isVideoLiked: is there a like row of this user on this video.
IsVideoLiked(userId, vid) ==
  \E l \in likes : l.userId = userId /\ l.videoId = vid

\* The foreign key of a like row: its video exists.
LikeRowReferencesVideo(userId, vid) == VideoExists(videos, vid)

\* The likes table accepts a row when its video exists (foreign key) and no
\* row of the same user and video is there (unique per user and video).
LikeRowAccepted(userId, vid) ==
  /\ VideoExists(videos, vid)
  /\ ~\E l \in likes : l.userId = userId /\ l.videoId = vid

\* The comments table accepts a row when its video exists (foreign key).
CommentRowAccepted(vid) == VideoExists(videos, vid)

\* A variant of IncrementViewCount that computes the new value from like_count.
IncrementViewCountFromLikes(vs, vid) ==
  [i \in 1..Len(vs) |->
     IF vs[i].id = vid THEN [vs[i] EXCEPT !.viewCount = vs[i].likeCount + 1] ELSE vs[i]]

\* UPDATE videos SET view_count = view_count + 1 WHERE id = vid.
IncrementViewCount(vs, vid) ==
  [i \in 1..Len(vs) |->
     IF vs[i].id = vid THEN [vs[i] EXCEPT !.viewCount = @ + 1] ELSE vs[i]]

\* UPDATE videos SET like_count = like_count + 1 WHERE id = vid.
IncrementLikeCount(vs, vid) ==
  [i \in 1..Len(vs) |->
     IF vs[i].id = vid THEN [vs[i] EXCEPT !.likeCount = @ + 1] ELSE vs[i]]

\* A variant of DecrementLikeCount that leaves the counter as it is.
DecrementLikeCountSkipped(vs, vid) == vs

\* UPDATE videos SET like_count = like_count - 1 WHERE id = vid.
DecrementLikeCount(vs, vid) ==
  [i \in 1..Len(vs) |->
     IF vs[i].id = vid THEN [vs[i] EXCEPT !.likeCount = @ - 1] ELSE vs[i]]

\* A variant of IncrementCommentCount that leaves the counter as it is.
IncrementCommentCountSkipped(vs, vid) == vs

\* A variant of IncrementCommentCount whose UPDATE also makes the video public.
IncrementCommentCountPublishes(vs, vid) ==
  [i \in 1..Len(vs) |->
     IF vs[i].id = vid THEN [vs[i] EXCEPT !.commentCount = @ + 1, !.isPublic = TRUE]
     ELSE vs[i]]

\* UPDATE videos SET comment_count = comment_count + 1 WHERE id = vid.
IncrementCommentCount(vs, vid) ==
  [i \in 1..Len(vs) |->
     IF vs[i].id = vid THEN [vs[i] EXCEPT !.commentCount = @ + 1] ELSE vs[i]]

\* POST /api/videos/:id/view: one UPDATE, then { success: true }.
ViewRequest(r) ==
  /\ NextToArrive(r)
  /\ \E vid \in RequestVideoIds :
       /\ videos' = IncrementViewCount(videos, vid)
       /\ soc' = [soc EXCEPT ![r] =
            [IdleSocial EXCEPT !.kind = "view", !.vid = vid, !.pc = "responded",
                               !.status = 200]]
  /\ UNCHANGED <<restVars, uploadVars, likes, comments, nextRowId>>

\* POST /api/videos/:id/like up to the answer of isVideoLiked.
LikeRead(r) ==
  /\ NextToArrive(r)
  /\ \E u \in Users, vid \in RequestVideoIds :
       LET isLiked == IsVideoLiked(u, vid)
       IN soc' = [soc EXCEPT ![r] =
            [IdleSocial EXCEPT !.kind = "like", !.userId = u, !.vid = vid,
                               !.isLiked = isLiked,
                               !.pc = IF isLiked THEN "unlike_delete" ELSE "like_insert"]]
  /\ UNCHANGED <<restVars, uploadVars, videos, likes, comments, nextRowId>>

\* likeVideo, first statement: INSERT INTO likes; a rejected row throws and
\* the route answers 500.
LikeInsert(r) ==
  LET q == soc[r]
  IN /\ q.pc = "like_insert"
     /\ IF LikeRowAccepted(q.userId, q.vid)
          THEN /\ likes' = likes \cup {[id |-> nextRowId, userId |-> q.userId, videoId |-> q.vid]}
               /\ nextRowId' = nextRowId + 1
               /\ soc' = [soc EXCEPT ![r].pc = "like_count"]
          ELSE /\ UNCHANGED <<likes, nextRowId>>
               /\ soc' = [soc EXCEPT ![r].pc = "responded", ![r].status = 500]
     /\ UNCHANGED <<restVars, uploadVars, videos, comments>>

\* likeVideo, first statement, as storage.ts issues it: a plain INSERT with
\* no ON CONFLICT clause, after a read the route made in an earlier
\* statement.  Nothing in the server refuses a second row of the same user
\* and video; only the foreign key can reject the row.
LikeInsertUnguarded(r) ==
  LET q == soc[r]
  IN /\ q.pc = "like_insert"
     /\ IF LikeRowReferencesVideo(q.userId, q.vid)
          THEN /\ likes' = likes \cup {[id |-> nextRowId, userId |-> q.userId, videoId |-> q.vid]}
               /\ nextRowId' = nextRowId + 1
               /\ soc' = [soc EXCEPT ![r].pc = "like_count"]
          ELSE /\ UNCHANGED <<likes, nextRowId>>
               /\ soc' = [soc EXCEPT ![r].pc = "responded", ![r].status = 500]
     /\ UNCHANGED <<restVars, uploadVars, videos, comments>>

\* likeVideo, second statement, then { liked: true }.
LikeCount(r) ==
  LET q == soc[r]
  IN /\ q.pc = "like_count"
     /\ videos' = IncrementLikeCount(videos, q.vid)
     /\ soc' = [soc EXCEPT ![r].pc = "responded", ![r].status = 200, ![r].liked = TRUE]
     /\ UNCHANGED <<restVars, uploadVars, likes, comments, nextRowId>>

\* unlikeVideo, first statement: DELETE FROM likes WHERE user and video.
UnlikeDelete(r) ==
  LET q == soc[r]
      gone == {l \in likes : l.userId = q.userId /\ l.videoId = q.vid}
  IN /\ q.pc = "unlike_delete"
     /\ likes' = likes \ gone
     /\ soc' = [soc EXCEPT ![r].pc = "unlike_count", ![r].deleted = Cardinality(gone)]
     /\ UNCHANGED <<restVars, uploadVars, videos, comments, nextRowId>>

\* A variant of UnlikeCount that keeps the count when the DELETE removed no row.
UnlikeCountGuarded(r) ==
  LET q == soc[r]
  IN /\ q.pc = "unlike_count"
     /\ videos' = IF q.deleted > 0 THEN DecrementLikeCount(videos, q.vid) ELSE videos
     /\ soc' = [soc EXCEPT ![r].pc = "responded", ![r].status = 200, ![r].liked = FALSE]
     /\ UNCHANGED <<restVars, uploadVars, likes, comments, nextRowId>>

\* unlikeVideo, second statement, then { liked: false }.
UnlikeCount(r) ==
  LET q == soc[r]
  IN /\ q.pc = "unlike_count"
     /\ videos' = DecrementLikeCount(videos, q.vid)
     /\ soc' = [soc EXCEPT ![r].pc = "responded", ![r].status = 200, ![r].liked = FALSE]
     /\ UNCHANGED <<restVars, uploadVars, likes, comments, nextRowId>>

\* POST /api/videos/:id/comments: insertCommentSchema.parse, then createComment's
\* INSERT; a ZodError is answered 400, a rejected row 500.
CommentInsert(r) ==
  /\ NextToArrive(r)
  /\ \E vid \in RequestVideoIds, valid \in BOOLEAN :
       LET u == "anonymous"
           q == [IdleSocial EXCEPT !.kind = "comment", !.userId = u, !.vid = vid]
       IN IF ~valid
            THEN /\ soc' = [soc EXCEPT ![r] = [q EXCEPT !.pc = "responded", !.status = 400]]
                 /\ UNCHANGED <<comments, nextRowId>>
          ELSE IF ~CommentRowAccepted(vid)
            THEN /\ soc' = [soc EXCEPT ![r] = [q EXCEPT !.pc = "responded", !.status = 500]]
                 /\ UNCHANGED <<comments, nextRowId>>
          ELSE /\ comments' = comments \cup {[id |-> nextRowId, userId |-> u, videoId |-> vid]}
               /\ nextRowId' = nextRowId + 1
               /\ soc' = [soc EXCEPT ![r] = [q EXCEPT !.pc = "comment_count"]]
  /\ UNCHANGED <<restVars, uploadVars, videos, likes>>

\* createComment, second statement, then the 201 answer.
CommentCount(r) ==
  LET q == soc[r]
  IN /\ q.pc = "comment_count"
     /\ videos' = IncrementCommentCount(videos, q.vid)
     /\ soc' = [soc EXCEPT ![r].pc = "responded", ![r].status = 201]
     /\ UNCHANGED <<restVars, uploadVars, likes, comments, nextRowId>>

(***************************************************************************)
(* The feed: GET /api/videos and GET /api/videos/user/:userId.             *)
(***************************************************************************)
DEFAULT_FEED_LIMIT == 20
DEFAULT_USER_LIMIT == 50
DEFAULT_OFFSET == 0

Digits == <<"0", "1", "2", "3", "4", "5", "6", "7", "8", "9">>
IsDigit(c) == \E d \in 1..10 : Digits[d] = c
DigitValue(c) == (CHOOSE d \in 1..10 : Digits[d] = c) - 1

\* A query parameter: absent, or the text the client sent.
Absent == [present |-> FALSE, text |-> <<>>]
Sent(text) == [present |-> TRUE, text |-> text]

\* The texts of ?limit= and ?offset= that clients send: the numbers
\* 0..MaxQueryNumber, a negative number, a word, a number followed by a
\* letter, a number after a blank.  None starts with 0x.
QueryParams ==
  {Absent, Sent(<<"a">>), Sent(<<"-", "1">>), Sent(<<"1", "a">>), Sent(<<" ", "2">>)}
    \cup {Sent(<<Digits[n + 1]>>) : n \in 0..MaxQueryNumber}

NaN == [nan |-> TRUE, value |-> 0]

\* The value of the longest prefix of digits of s, NaN when s starts with none.
RECURSIVE ParseDigits(_, _, _)
ParseDigits(s, acc, seen) ==
  IF s # <<>> /\ IsDigit(Head(s))
    THEN ParseDigits(Tail(s), 10 * acc + DigitValue(Head(s)), TRUE)
    ELSE IF seen THEN [nan |-> FALSE, value |-> acc] ELSE NaN

\* parseInt(req.query.x as string): leading blanks are skipped, a sign is
\* read, then the digits up to the first other character; undefined is NaN.
ParseInt(q) ==
  IF ~q.present THEN NaN
  ELSE LET s == TrimStart(q.text)
           signed == s # <<>> /\ Head(s) \in {"-", "+"}
           p == ParseDigits(IF signed THEN Tail(s) ELSE s, 0, FALSE)
       IN IF ~p.nan /\ signed /\ Head(s) = "-" THEN [p EXCEPT !.value = 0 - p.value]
          ELSE p

\* parseInt(...) || dflt: NaN and 0 are falsy.
OrDefault(p, dflt) == IF p.nan \/ p.value = 0 THEN dflt ELSE p.value

\* created_at of a row: the time of its INSERT; rows of videos are numbered
\* in the order of their creation.
CreatedAt(v) == v.id

Rows(vs) == {vs[i] : i \in 1..Len(vs)}

\* ORDER BY created_at DESC.
RECURSIVE OrderByCreatedAtDesc(_)
OrderByCreatedAtDesc(rows) ==
  IF rows = {} THEN <<>>
  ELSE LET newest == CHOOSE v \in rows : \A w \in rows : CreatedAt(w) <= CreatedAt(v)
       IN <<newest>> \o OrderByCreatedAtDesc(rows \ {newest})

\* A variant of LimitOffset that returns one row more than the limit.
LimitOffsetOneMore(s, limit, offset) ==
  IF offset + 1 > Len(s) THEN <<>>
  ELSE SubSeq(s, offset + 1, IF offset + limit + 1 < Len(s) THEN offset + limit + 1 ELSE Len(s))

\* LIMIT limit OFFSET offset of an ordered result.
LimitOffset(s, limit, offset) ==
  IF offset + 1 > Len(s) THEN <<>>
  ELSE SubSeq(s, offset + 1, IF offset + limit < Len(s) THEN offset + limit ELSE Len(s))

\* The videos row is accepted when its owner is a row of users (foreign key).
VideoRowAccepted(userId) == userId \in users

\* A variant of GetVideos without the WHERE is_public = true.
GetVideosNoFilter(vs, limit, offset) ==
  IF limit < 0 \/ offset < 0 THEN [threw |-> TRUE, rows |-> <<>>]
  ELSE LET page == LimitOffset(OrderByCreatedAtDesc(Rows(vs)), limit, offset)
       IN [threw |-> FALSE, rows |-> SelectSeq(page, LAMBDA v : v.userId \in users)]

\* storage.getVideos: public rows, newest first, LIMIT and OFFSET (PostgreSQL
\* refuses a negative one), then the rows whose joined user is missing are
\* skipped.
GetVideos(vs, limit, offset) ==
  IF limit < 0 \/ offset < 0 THEN [threw |-> TRUE, rows |-> <<>>]
  ELSE LET page == LimitOffset(OrderByCreatedAtDesc({v \in Rows(vs) : v.isPublic}),
                               limit, offset)
       IN [threw |-> FALSE, rows |-> SelectSeq(page, LAMBDA v : v.userId \in users)]

\* storage.getUserVideos: inner join with users, the public rows of userId,
\* newest first, LIMIT and OFFSET.
GetUserVideos(vs, userId, limit, offset) ==
  IF limit < 0 \/ offset < 0 THEN [threw |-> TRUE, rows |-> <<>>]
  ELSE LET joined == {v \in Rows(vs) : v.userId \in users}
           mine == {v \in joined : v.userId = userId /\ v.isPublic}
       IN [threw |-> FALSE, rows |-> LimitOffset(OrderByCreatedAtDesc(mine), limit, offset)]

FeedLimit(q) == OrDefault(ParseInt(q), DEFAULT_FEED_LIMIT)
UserLimit(q) == OrDefault(ParseInt(q), DEFAULT_USER_LIMIT)
QueryOffset(q) == OrDefault(ParseInt(q), DEFAULT_OFFSET)

\* What the client holds: its last request and answer, and the pages it
\* collected while browsing the feed with one limit.
IdleFeed ==
  [kind |-> "idle", limitQ |-> Absent, offsetQ |-> Absent, owner |-> "anonymous",
   limit |-> 0, offset |-> 0, status |-> NoStatus, rows |-> <<>>,
   pages |-> <<>>, done |-> FALSE]

\* The answer of a listing: res.json(videos), or 500 from the catch block.
Listing(q, out) ==
  IF out.threw THEN [q EXCEPT !.status = 500]
  ELSE [q EXCEPT !.status = 200, !.rows = out.rows]

\* GET /api/videos?limit=..&offset=..
FeedRequest ==
  /\ feed.kind = "idle"
  /\ \E lq \in QueryParams, oq \in QueryParams :
       LET limit == FeedLimit(lq)
           offset == QueryOffset(oq)
           q == [IdleFeed EXCEPT !.kind = "feed", !.limitQ = lq, !.offsetQ = oq,
                                 !.limit = limit, !.offset = offset]
       IN feed' = Listing(q, GetVideos(videos, limit, offset))
  /\ UNCHANGED <<lateVars, uploadVars, videos, socialVars, users, followVars, authVars>>

\* GET /api/videos/user/:userId?limit=..&offset=..
UserVideosRequest ==
  /\ feed.kind = "idle"
  /\ \E u \in Users, lq \in QueryParams, oq \in QueryParams :
       LET limit == UserLimit(lq)
           offset == QueryOffset(oq)
           q == [IdleFeed EXCEPT !.kind = "user", !.owner = u, !.limitQ = lq,
                                 !.offsetQ = oq, !.limit = limit, !.offset = offset]
       IN feed' = Listing(q, GetUserVideos(videos, u, limit, offset))
  /\ UNCHANGED <<lateVars, uploadVars, videos, socialVars, users, followVars, authVars>>

\* A client starts to page through the feed with the limit of lq.
BrowseStart ==
  /\ feed.kind = "idle"
  /\ \E lq \in QueryParams :
       /\ FeedLimit(lq) > 0
       /\ feed' = [IdleFeed EXCEPT !.kind = "browse", !.limitQ = lq,
                                   !.limit = FeedLimit(lq)]
  /\ UNCHANGED <<lateVars, uploadVars, videos, socialVars, users, followVars, authVars>>

\* The client asks GET /api/videos for its next page, at offset 0, L, 2L, ...,
\* and stops after a page shorter than L.
BrowseNext ==
  /\ feed.kind = "browse"
  /\ ~feed.done
  /\ \E oq \in QueryParams :
       LET out == GetVideos(videos, FeedLimit(feed.limitQ), QueryOffset(oq))
       IN /\ QueryOffset(oq) = Len(feed.pages) * feed.limit
          /\ ~out.threw
          /\ feed' = [feed EXCEPT !.offsetQ = oq, !.offset = QueryOffset(oq),
                                  !.status = 200, !.rows = out.rows,
                                  !.pages = Append(@, out.rows),
                                  !.done = Len(out.rows) < feed.limit]
  /\ UNCHANGED <<lateVars, uploadVars, videos, socialVars, users, followVars, authVars>>

(***************************************************************************)
(* Follows: POST /api/users/:id/follow.                                    *)
(***************************************************************************)
FollowReqs == 1..NumFollowReqs

\* An id that is the id of no user.
UNKNOWN_USER == "nobody"

\* The ids a request can name in :id: any string, here the id of a user or
\* the id of no user.
FollowIds == Users \cup {UNKNOWN_USER}

\* The follows table: how many rows it holds for each (follower, followee).
NoFollows == [p \in Users \X Users |-> 0]

\* isFollowing: is there a row of this follower and followee.
IsFollowing(followerId, followingId) ==
  /\ <<followerId, followingId>> \in DOMAIN follows
  /\ follows[<<followerId, followingId>>] > 0

\* The follows table accepts a row when its follower and its followee are
\* rows of users (foreign keys).
FollowRowAccepted(followerId, followingId) ==
  followerId \in users /\ followingId \in users

\* followUser: INSERT INTO follows.
FollowUser(followerId, followingId) ==
  [follows EXCEPT ![<<followerId, followingId>>] = @ + 1]

\* unfollowUser: DELETE FROM follows WHERE follower and followee.
UnfollowUser(followerId, followingId) ==
  [follows EXCEPT ![<<followerId, followingId>>] = 0]

IdleFollow ==
  [pc |-> "idle", caller |-> "anonymous", target |-> "anonymous",
   isFollowing |-> FALSE, status |-> NoStatus, following |-> FALSE]

\* Follow requests are numbered in the order in which the server receives them.
NextFollowToArrive(r) ==
  /\ fol[r].pc = "idle"
  /\ \A p \in FollowReqs : p < r => fol[p].pc # "idle"

\* A variant of FollowRead without the test followerId === id.
FollowReadNoSelfTest(r) ==
  /\ NextFollowToArrive(r)
  /\ \E caller \in Users, id \in FollowIds :
       LET q == [IdleFollow EXCEPT !.caller = caller, !.target = id]
           isFollowing == IsFollowing(caller, id)
       IN fol' = [fol EXCEPT ![r] =
            [q EXCEPT !.isFollowing = isFollowing,
                      !.pc = IF isFollowing THEN "unfollow" ELSE "follow"]]
  /\ UNCHANGED <<lateVars, uploadVars, videos, socialVars, feedVars, follows, authVars>>

\* POST /api/users/:id/follow up to the answer of isFollowing: the caller is
\* a signed-in user, the id is whatever the path names, and the caller's own
\* id is answered 400 before anything is read.
FollowRead(r) ==
  /\ NextFollowToArrive(r)
  /\ \E caller \in Users, id \in FollowIds :
       LET q == [IdleFollow EXCEPT !.caller = caller, !.target = id]
           isFollowing == IsFollowing(caller, id)
       IN fol' = [fol EXCEPT ![r] =
            IF caller = id THEN [q EXCEPT !.pc = "responded", !.status = 400]
            ELSE [q EXCEPT !.isFollowing = isFollowing,
                           !.pc = IF isFollowing THEN "unfollow" ELSE "follow"]]
  /\ UNCHANGED <<lateVars, uploadVars, videos, socialVars, feedVars, follows, authVars>>

\* await storage.followUser, then { following: true }; a rejected row throws
\* and the catch block answers 500.
FollowInsert(r) ==
  LET q == fol[r]
  IN /\ q.pc = "follow"
     /\ IF FollowRowAccepted(q.caller, q.target)
          THEN /\ follows' = FollowUser(q.caller, q.target)
               /\ fol' = [fol EXCEPT ![r].pc = "responded", ![r].status = 200,
                                     ![r].following = TRUE]
          ELSE /\ follows' = follows
               /\ fol' = [fol EXCEPT ![r].pc = "responded", ![r].status = 500]
     /\ UNCHANGED <<lateVars, uploadVars, videos, socialVars, feedVars, authVars>>

\* await storage.unfollowUser, then { following: false }.
UnfollowDelete(r) ==
  LET q == fol[r]
  IN /\ q.pc = "unfollow"
     /\ follows' = UnfollowUser(q.caller, q.target)
     /\ fol' = [fol EXCEPT ![r].pc = "responded", ![r].status = 200, ![r].following = FALSE]
     /\ UNCHANGED <<lateVars, uploadVars, videos, socialVars, feedVars, authVars>>

(***************************************************************************)
(* The authenticated route set: Google OAuth sessions, likes and comments  *)
(* in DynamoDB, videos in the relational store.  One request at a time.    *)
(***************************************************************************)
AUTH_MAX_FILE_SIZE_BYTES == 50 * 1024 * 1024
AUTH_MAX_DURATION_SECONDS == 60
MAX_COMMENT_LENGTH == 500

\* The body of GET /api/videos/validation-rules.
ValidationRules == [maxDurationSeconds |-> 60, maxFileSizeMB |-> 10]

\* A request without a session, and the users that can sign in.
NoUser == "none"
AuthUsers == {"u1", "u2"}
Sessions == {NoUser} \cup AuthUsers

AuthFileSizes == FileSizes \cup {AUTH_MAX_FILE_SIZE_BYTES, AUTH_MAX_FILE_SIZE_BYTES + 1}

\* Comment texts: none, blank, a word between blanks, one character too many,
\* and a text of exactly the largest length after a blank.
LongContent == [i \in 1..(MAX_COMMENT_LENGTH + 1) |-> "a"]
FullContent == [i \in 1..MAX_COMMENT_LENGTH |-> "a"]
PaddedContent == <<" ">> \o FullContent
Contents == {<<>>, <<" ">>, <<" ", "a", " ">>, LongContent, PaddedContent}

\* The path of a file that is not on disk.
NoPath == "undefined"

\* req.file.path under multer.memoryStorage(): the upload is kept in
\* req.file.buffer and no path is set.
MemoryStoragePath == NoPath

\* ffmpeg.ffprobe(filePath, callback): an error when there is no input to
\* probe, else the metadata of the file with its duration, in tenths of a
\* second.
Ffprobe(filePath, dur10) ==
  IF filePath = NoPath THEN [err |-> TRUE, dur10 |-> 0]
  ELSE [err |-> FALSE, dur10 |-> dur10]

\* requireAuth lets the request through when it carries a signed-in user and
\* answers 401 otherwise.
RequireAuth(user) == user # NoUser

\* Content types of uploaded files, as type and subtype: an allowed video
\* type, a video type that is not in the list of validateMimeType, and a
\* type that is no video.
MimeTypes ==
  {[type |-> "video", subtype |-> "mp4"],
   [type |-> "video", subtype |-> "x-matroska"],
   [type |-> "image", subtype |-> "png"]}
NoMimeType == [type |-> "", subtype |-> ""]

\* fileFilter of multer: file.mimetype.startsWith('video/'); any other type
\* is handed to next as an Error, which is answered 500.
FileFilterAccepts(mimetype) == mimetype.type = "video"

\* VideoValidationService.validateMimeType: allowedTypes.includes(mimeType).
ValidateMimeType(mimeType) ==
  LET allowedTypes ==
        {[type |-> "video", subtype |-> t] :
           t \in {"mp4", "avi", "mov", "wmv", "webm", "quicktime"}}
  IN [isValid |-> mimeType \in allowedTypes]

\* VideoValidationService.validateFileSize.
ValidateFileSize(fileSize) == [isValid |-> ~(fileSize > AUTH_MAX_FILE_SIZE_BYTES)]

\* VideoValidationService.validateVideoDuration on what ffprobe reports; the
\* duration is compared as measured.
ValidateVideoDuration(out) ==
  IF out.err THEN [isValid |-> FALSE, dur10 |-> 0]
  ELSE IF out.dur10 = 0 THEN [isValid |-> FALSE, dur10 |-> 0]
  ELSE IF out.dur10 > 10 * AUTH_MAX_DURATION_SECONDS
    THEN [isValid |-> FALSE, dur10 |-> out.dur10]
  ELSE [isValid |-> TRUE, dur10 |-> out.dur10]

\* A variant of GetVideo that finds a video for every id.
GetVideoFindsAny(vs, id) == TRUE

\* storage.getVideo: the row with this id, when its owner is a row of users.
GetVideo(vs, id) == VideoExists(vs, id) /\ vs[id].userId \in users

\* A variant of LikeId that names every item afresh.
LikeIdFresh(vid, userId) == <<vid, userId, Cardinality(dlikes)>>

\* The key of a like item: `${videoId}#${userId}`.
LikeId(vid, userId) == <<vid, userId>>

\* DynamoDBService.getUserLike: GetCommand on the key.
GetUserLike(vid, userId) == \E l \in dlikes : l.id = LikeId(vid, userId)

\* DynamoDBService.addLike: PutCommand replaces the item of the same key.
AddLike(vid, userId) ==
  {l \in dlikes : l.id # LikeId(vid, userId)}
    \cup {[id |-> LikeId(vid, userId), videoId |-> vid, userId |-> userId]}

\* DynamoDBService.removeLike: DeleteCommand on the key.
RemoveLike(vid, userId) == {l \in dlikes : l.id # LikeId(vid, userId)}

\* DynamoDBService.getVideoLikeCount: Scan with Select COUNT.
GetVideoLikeCount(vid) == Cardinality({l \in dlikes : l.videoId = vid})

\* DynamoDBService.getVideoCommentCount: Scan with Select COUNT.
GetVideoCommentCount(vid) == Cardinality({c \in dcomments : c.videoId = vid})

\* DynamoDBService.addComment: PutCommand of an item with a fresh id.
AddComment(vid, userId, content) ==
  dcomments \cup {[id |-> nextRowId, videoId |-> vid, userId |-> userId,
                   content |-> content]}

\* DynamoDBService.deleteComment: DeleteCommand on the id.
DeleteComment(commentId) == {c \in dcomments : c.id # commentId}

\* A request of the authenticated route set.  size, mimetype and fileDur10
\* describe the uploaded file: its bytes, its content type, and its true
\* duration in tenths of a second.
IdleAuth ==
  [route |-> "idle", pc |-> "idle", user |-> NoUser, vid |-> 0, cid |-> 0,
   content |-> <<>>, size |-> 0, mimetype |-> NoMimeType, fileDur10 |-> 0, dur10 |-> 0,
   key |-> NoKey, existing |-> FALSE,
   liked |-> FALSE, likeCount |-> 0, commentCount |-> 0, wait |-> {},
   todo |-> <<>>, saved |-> 0,
   status |-> NoStatus, served |-> 0]

\* The next request: served counts the requests answered before it.
FreshAuth == [IdleAuth EXCEPT !.served = areq.served]
AuthIdle == areq.pc = "idle" /\ areq.served < MaxAuthReqs

AuthRespond(q, code) == [q EXCEPT !.pc = "responded", !.status = code]

\* The s3Key a body of POST /api/videos/metadata names: none, or a key.
BodyKeys == {NoKey, NoKey + 1}

\* insertVideoSchema.parse where the module imports the schema: a body that
\* names a videoUrl is accepted, any other throws a ZodError.
InsertVideoSchemaAccepts(hasUrl) == hasUrl

\* insertVideoSchema.parse in the authenticated route set, whose imports do
\* not bind insertVideoSchema: evaluating the name throws a ReferenceError
\* before the body is looked at.
UnboundInsertVideoSchema(hasUrl) == "ReferenceError"

\* The row createVideo would insert for POST /api/videos/metadata.
MetadataVideoRow(k, pub) ==
  [id |-> Len(videos) + 1, userId |-> "anonymous", s3Key |-> k,
   duration |-> NoDuration, isPublic |-> pub,
   viewCount |-> 0, likeCount |-> 0, commentCount |-> 0]

\* POST /api/videos: requireAuth, multer (fileFilter, then the size limit;
\* an error of either is answered 500), then the handler up to its first
\* await (file present, size check, type check).
AuthUploadReceive ==
  /\ AuthIdle
  /\ \E user \in Sessions, hasFile \in BOOLEAN, size \in AuthFileSizes,
        mimetype \in MimeTypes, d \in Durations10 :
       LET q == [FreshAuth EXCEPT !.route = "upload", !.user = user,
                                 !.size = IF hasFile THEN size ELSE 0,
                                 !.mimetype = IF hasFile THEN mimetype ELSE NoMimeType,
                                 !.fileDur10 = IF hasFile THEN d ELSE 0]
       IN areq' =
            IF ~RequireAuth(user) THEN AuthRespond(q, 401)
            ELSE IF hasFile /\ ~FileFilterAccepts(mimetype) THEN AuthRespond(q, 500)
            ELSE IF hasFile /\ MulterRejects(size) THEN AuthRespond(q, 500)
            ELSE IF ~hasFile THEN AuthRespond(q, 400)
            ELSE IF ~ValidateFileSize(size).isValid THEN AuthRespond(q, 400)
            ELSE IF ~ValidateMimeType(mimetype).isValid THEN AuthRespond(q, 400)
            ELSE [q EXCEPT !.pc = "probe"]
  /\ UNCHANGED <<lateVars, uploadVars, videos, socialVars, feedVars, followVars, dlikes, dcomments>>

\* await VideoValidationService.validateVideoDuration(req.file.path): the
\* probe of the path multer left, and 400 with the error of an invalid
\* result.  The S3 upload and createVideo come after a valid result only.
AuthProbe ==
  /\ areq.pc = "probe"
  /\ LET v == ValidateVideoDuration(Ffprobe(MemoryStoragePath, areq.fileDur10))
     IN areq' = IF ~v.isValid THEN AuthRespond(areq, 400)
                ELSE [areq EXCEPT !.dur10 = v.dur10, !.pc = "s3put"]
  /\ UNCHANGED <<lateVars, uploadVars, videos, socialVars, feedVars, followVars, dlikes, dcomments>>

\* POST /api/videos/metadata: no middleware.  insertVideoSchema.parse comes
\* first; a ZodError is answered 400, any other error 500, and only a parsed
\* body reaches await storage.createVideo and the 201 answer.
AuthMetadata ==
  /\ AuthIdle
  /\ \E user \in Sessions, hasUrl \in BOOLEAN, k \in BodyKeys, pub \in BOOLEAN,
        ok \in BOOLEAN :
       LET q == [FreshAuth EXCEPT !.route = "metadata", !.user = user, !.key = k]
           parse == UnboundInsertVideoSchema(hasUrl)
       IN IF parse = "ZodError"
            THEN videos' = videos /\ areq' = AuthRespond(q, 400)
          ELSE IF parse # "parsed" \/ ~ok
            THEN videos' = videos /\ areq' = AuthRespond(q, 500)
          ELSE /\ videos' = Append(videos, MetadataVideoRow(k, pub))
               /\ areq' = AuthRespond(q, 201)
  /\ UNCHANGED <<lateVars, uploadVars, socialVars, feedVars, followVars, dlikes, dcomments>>

\* POST /api/videos/:id/view: no middleware; await storage.incrementViewCount
\* and { success: true }.
AuthView ==
  /\ AuthIdle
  /\ \E user \in Sessions, vid \in RequestVideoIds :
       /\ videos' = IncrementViewCount(videos, vid)
       /\ areq' = AuthRespond([FreshAuth EXCEPT !.route = "view", !.user = user,
                                                !.vid = vid], 200)
  /\ UNCHANGED <<lateVars, uploadVars, socialVars, feedVars, followVars, dlikes, dcomments>>

\* POST /api/videos/:id/like: requireAuth, then await storage.getVideo.
AuthLikeLookup ==
  /\ AuthIdle
  /\ \E user \in Sessions, vid \in RequestVideoIds :
       LET q == [FreshAuth EXCEPT !.route = "like", !.user = user, !.vid = vid]
       IN areq' = IF ~RequireAuth(user) THEN AuthRespond(q, 401)
                  ELSE IF ~GetVideo(videos, vid) THEN AuthRespond(q, 404)
                  ELSE [q EXCEPT !.pc = "like_read"]
  /\ UNCHANGED <<lateVars, uploadVars, videos, socialVars, feedVars, followVars, dlikes, dcomments>>

\* await DynamoDBService.getUserLike.
AuthLikeRead ==
  /\ areq.pc = "like_read"
  /\ areq' = [areq EXCEPT !.existing = GetUserLike(areq.vid, areq.user),
                          !.pc = "like_write"]
  /\ UNCHANGED <<lateVars, uploadVars, videos, socialVars, feedVars, followVars, dlikes, dcomments>>

\* await DynamoDBService.removeLike or addLike.
AuthLikeWrite ==
  /\ areq.pc = "like_write"
  /\ dlikes' = IF areq.existing THEN RemoveLike(areq.vid, areq.user)
               ELSE AddLike(areq.vid, areq.user)
  /\ areq' = [areq EXCEPT !.liked = ~areq.existing, !.pc = "like_count"]
  /\ UNCHANGED <<lateVars, uploadVars, videos, socialVars, feedVars, followVars, dcomments>>

\* await DynamoDBService.getVideoLikeCount, then { liked, likeCount }.
AuthLikeCount ==
  /\ areq.pc = "like_count"
  /\ areq' = AuthRespond([areq EXCEPT !.likeCount = GetVideoLikeCount(areq.vid)], 200)
  /\ UNCHANGED <<lateVars, uploadVars, videos, socialVars, feedVars, followVars, dlikes, dcomments>>

\* POST /api/videos/:id/comments: requireAuth, the checks of the content,
\* then await storage.getVideo.
AuthCommentLookup ==
  /\ AuthIdle
  /\ nextRowId <= MaxComments
  /\ \E user \in Sessions, vid \in RequestVideoIds, content \in Contents :
       LET q == [FreshAuth EXCEPT !.route = "comment", !.user = user, !.vid = vid,
                                 !.content = content]
       IN areq' = IF ~RequireAuth(user) THEN AuthRespond(q, 401)
                  ELSE IF content = <<>> \/ Len(Trim(content)) = 0 THEN AuthRespond(q, 400)
                  ELSE IF Len(content) > MAX_COMMENT_LENGTH THEN AuthRespond(q, 400)
                  ELSE IF ~GetVideo(videos, vid) THEN AuthRespond(q, 404)
                  ELSE [q EXCEPT !.pc = "comment_put"]
  /\ UNCHANGED <<lateVars, uploadVars, videos, socialVars, feedVars, followVars, dlikes, dcomments>>

\* await DynamoDBService.addComment with the trimmed content, then 201.
AuthCommentPut ==
  /\ areq.pc = "comment_put"
  /\ dcomments' = AddComment(areq.vid, areq.user, Trim(areq.content))
  /\ nextRowId' = nextRowId + 1
  /\ areq' = AuthRespond([areq EXCEPT !.cid = nextRowId], 201)
  /\ UNCHANGED <<lateVars, uploadVars, videos, likes, comments, soc, feedVars, followVars, dlikes>>

\* DELETE /api/comments/:commentId: requireAuth, then await deleteComment for
\* any signed-in user.
AuthDeleteComment ==
  /\ AuthIdle
  /\ \E user \in Sessions, cid \in 1..MaxComments :
       LET q == [FreshAuth EXCEPT !.route = "delete_comment", !.user = user, !.cid = cid]
       IN IF ~RequireAuth(user)
            THEN dcomments' = dcomments /\ areq' = AuthRespond(q, 401)
            ELSE dcomments' = DeleteComment(cid) /\ areq' = AuthRespond(q, 200)
  /\ UNCHANGED <<lateVars, uploadVars, videos, socialVars, feedVars, followVars, dlikes>>

\* The store calls GET /api/videos/:id starts together in its Promise.all;
\* getUserLike is among them only for a signed-in user.
GetVideoCalls(user) ==
  {"likeCount", "commentCount"} \cup (IF user # NoUser THEN {"userLike"} ELSE {})

\* One call of the Promise.all is answered; with the last answer the route
\* sends { ...video, likeCount, commentCount, isLiked }.
GetVideoAnswered(q, call) ==
  LET q1 == [q EXCEPT !.wait = @ \ {call}]
  IN IF q1.wait = {} THEN AuthRespond(q1, 200) ELSE q1

\* GET /api/videos/:id: getUser, then await storage.getVideo; the three
\* store calls of the Promise.all are started.
AuthGetVideo ==
  /\ AuthIdle
  /\ \E user \in Sessions, vid \in RequestVideoIds :
       LET q == [FreshAuth EXCEPT !.route = "get_video", !.user = user, !.vid = vid]
       IN areq' = IF ~GetVideo(videos, vid) THEN AuthRespond(q, 404)
                  ELSE [q EXCEPT !.pc = "get_wait", !.wait = GetVideoCalls(user)]
  /\ UNCHANGED <<lateVars, uploadVars, videos, socialVars, feedVars, followVars, dlikes, dcomments>>

\* DynamoDBService.getVideoLikeCount of the Promise.all is answered.
AuthGetLikeCount ==
  /\ areq.pc = "get_wait"
  /\ "likeCount" \in areq.wait
  /\ areq' = GetVideoAnswered([areq EXCEPT !.likeCount = GetVideoLikeCount(areq.vid)],
                              "likeCount")
  /\ UNCHANGED <<lateVars, uploadVars, videos, socialVars, feedVars, followVars, dlikes, dcomments>>

\* DynamoDBService.getVideoCommentCount of the Promise.all is answered.
AuthGetCommentCount ==
  /\ areq.pc = "get_wait"
  /\ "commentCount" \in areq.wait
  /\ areq' = GetVideoAnswered([areq EXCEPT !.commentCount = GetVideoCommentCount(areq.vid)],
                              "commentCount")
  /\ UNCHANGED <<lateVars, uploadVars, videos, socialVars, feedVars, followVars, dlikes, dcomments>>

\* DynamoDBService.getUserLike of the Promise.all is answered.
AuthGetUserLike ==
  /\ areq.pc = "get_wait"
  /\ "userLike" \in areq.wait
  /\ areq' = GetVideoAnswered([areq EXCEPT !.liked = GetUserLike(areq.vid, areq.user)],
                              "userLike")
  /\ UNCHANGED <<lateVars, uploadVars, videos, socialVars, feedVars, followVars, dlikes, dcomments>>

\* GET /api/videos without query parameters: getUser, then storage.getVideos.
AuthGetVideos ==
  /\ AuthIdle
  /\ \E user \in Sessions :
       LET q == [FreshAuth EXCEPT !.route = "get_videos", !.user = user]
           out == GetVideos(videos, FeedLimit(Absent), QueryOffset(Absent))
       IN areq' = IF out.threw THEN AuthRespond(q, 500)
                  ELSE AuthRespond([q EXCEPT !.likeCount = Len(out.rows)], 200)
  /\ UNCHANGED <<lateVars, uploadVars, videos, socialVars, feedVars, followVars, dlikes, dcomments>>

\* The answered request leaves the server.
AuthFinish ==
  /\ areq.pc = "responded"
  /\ areq' = [IdleAuth EXCEPT !.served = areq.served + 1]
  /\ UNCHANGED <<lateVars, uploadVars, videos, socialVars, feedVars, followVars, dlikes, dcomments>>

(***************************************************************************)
(* The like route of the authenticated route set with requests that may    *)
(* overlap: each await is a step of its own.                               *)
(***************************************************************************)
DynReqs == 1..NumDynReqs

IdleDyn ==
  [route |-> "idle", pc |-> "idle", user |-> NoUser, vid |-> 0,
   existing |-> FALSE, liked |-> FALSE, likeCount |-> 0,
   status |-> NoStatus, alone |-> FALSE]

\* Requests arrive in the order of their numbers.
NextDynToArrive(r) ==
  /\ dyn[r].pc = "idle"
  /\ \A p \in 1..(r - 1) : dyn[p].pc # "idle"

\* A request that was received and not answered yet.
DynInFlight(q) == q.pc \notin {"idle", "responded"}

DynRespond(q, code) == [q EXCEPT !.pc = "responded", !.status = code]

\* Request r is received as q.  It runs alone as long as no other request is
\* being served while it is.
DynArrive(r, q) ==
  [p \in DynReqs |->
     IF p = r
       THEN [q EXCEPT !.alone = \A o \in DynReqs \ {r} : ~DynInFlight(dyn[o])]
     ELSE IF DynInFlight(dyn[p]) /\ DynInFlight(q)
       THEN [dyn[p] EXCEPT !.alone = FALSE]
     ELSE dyn[p]]

\* POST /api/videos/:id/like: requireAuth, then await storage.getVideo.
DynLikeLookup(r) ==
  /\ NextDynToArrive(r)
  /\ \E user \in Sessions, vid \in RequestVideoIds :
       LET q == [IdleDyn EXCEPT !.route = "like", !.user = user, !.vid = vid]
       IN dyn' = DynArrive(r, IF ~RequireAuth(user) THEN DynRespond(q, 401)
                              ELSE IF ~GetVideo(videos, vid) THEN DynRespond(q, 404)
                              ELSE [q EXCEPT !.pc = "like_read"])
  /\ UNCHANGED <<uploadVars, videos, socialVars, feedVars, followVars, authVars,
                 awsRegion, urlq, sync, cl, ses, demo>>

\* await DynamoDBService.getUserLike.
DynLikeRead(r) ==
  /\ dyn[r].pc = "like_read"
  /\ dyn' = [dyn EXCEPT ![r].existing = GetUserLike(dyn[r].vid, dyn[r].user),
                        ![r].pc = "like_write"]
  /\ UNCHANGED <<uploadVars, videos, socialVars, feedVars, followVars, authVars,
                 awsRegion, urlq, sync, cl, ses, demo>>

\* await DynamoDBService.removeLike or addLike.
DynLikeWrite(r) ==
  /\ dyn[r].pc = "like_write"
  /\ dlikes' = IF dyn[r].existing THEN RemoveLike(dyn[r].vid, dyn[r].user)
               ELSE AddLike(dyn[r].vid, dyn[r].user)
  /\ dyn' = [dyn EXCEPT ![r].liked = ~dyn[r].existing, ![r].pc = "like_count"]
  /\ UNCHANGED <<uploadVars, videos, socialVars, feedVars, followVars, areq,
                 dcomments, awsRegion, urlq, sync, cl, ses, demo>>

\* await DynamoDBService.getVideoLikeCount, then { liked, likeCount }.
DynLikeCount(r) ==
  /\ dyn[r].pc = "like_count"
  /\ dyn' = [dyn EXCEPT ![r] = DynRespond([dyn[r] EXCEPT !.likeCount =
                                             GetVideoLikeCount(dyn[r].vid)], 200)]
  /\ UNCHANGED <<uploadVars, videos, socialVars, feedVars, followVars, authVars,
                 awsRegion, urlq, sync, cl, ses, demo>>

(***************************************************************************)
(* POST /api/get-video-url.  A text is the sequence of its characters.     *)
(***************************************************************************)
\* 'https://', '.s3.', '.amazonaws.com/' and '/': the pieces of the URL
\* templates.
HTTPS_PREFIX ==
  <<"h", "t", "t", "p", "s", ":", "/", "/">>
S3_INFIX ==
  <<".", "s", "3", ".">>
AMAZONAWS_SUFFIX ==
  <<".", "a", "m", "a", "z", "o", "n", "a", "w", "s", ".", "c", "o", "m",
    "/">>
SLASH == <<"/">>

\* The literals the route looks for in videoUrl.
HTTP_LITERAL ==
  <<"h", "t", "t", "p">>
S3_LITERAL ==
  <<"s", "3", ".", "a", "m", "a", "z", "o", "n", "a", "w", "s", ".", "c",
    "o", "m">>

\* process.env.S3_BUCKET_NAME after trim().
BUCKET_NAME ==
  <<"r", "e", "e", "l", "s">>

\* process.env.CLOUDFRONT_DOMAIN || 'e2nl5e3zoa6qsv.cloudfront.net'.
CLOUDFRONT_DOMAIN ==
  <<"e", "2", "n", "l", "5", "e", "3", "z", "o", "a", "6", "q", "s", "v",
    ".", "c", "l", "o", "u", "d", "f", "r", "o", "n", "t", ".", "n", "e",
    "t">>

\* What `${process.env.AWS_REGION}` can print: a region, or 'undefined' when
\* the variable is not set.
REGION_US_EAST_1 ==
  <<"u", "s", "-", "e", "a", "s", "t", "-", "1">>
REGION_EU_WEST_1 ==
  <<"e", "u", "-", "w", "e", "s", "t", "-", "1">>
REGION_UNDEFINED ==
  <<"u", "n", "d", "e", "f", "i", "n", "e", "d">>
AwsRegions == {REGION_US_EAST_1, REGION_EU_WEST_1, REGION_UNDEFINED}

\* Keys as uploadVideo builds them: `videos/${userId}/${nanoid()}.${ext}`.
KEY_A ==
  <<"v", "i", "d", "e", "o", "s", "/", "a", "n", "o", "n", "y", "m", "o",
    "u", "s", "/", "a", ".", "m", "p", "4">>
KEY_B ==
  <<"v", "i", "d", "e", "o", "s", "/", "u", "1", "/", "b", ".", "m", "o",
    "v">>
KEY_C ==
  <<"v", "i", "d", "e", "o", "s", "/", "u", "2", "/", "c", ".", "w", "e", "b", "m">>
S3Keys == {KEY_A, KEY_B, KEY_C}

\* A URL outside S3 and a path without a scheme.
EXTERNAL_URL ==
  <<"h", "t", "t", "p", ":", "/", "/", "c", "d", "n", ".", "e", "x", "a",
    "m", "p", "l", "e", ".", "c", "o", "m", "/", "v", ".", "m", "p", "4">>
RELATIVE_URL ==
  <<"/", "u", "p", "l", "o", "a", "d", "s", "/", "v", ".", "m", "p", "4">>

\* A body field that was not sent (undefined, falsy).
NoText == <<>>

\* String.prototype.startsWith and String.prototype.includes.
StartsWith(s, p) == Len(s) >= Len(p) /\ SubSeq(s, 1, Len(p)) = p
Includes(s, p) ==
  \E i \in 1..(Len(s) - Len(p) + 1) : SubSeq(s, i, i + Len(p) - 1) = p

\* The URL S3Service.uploadVideo returns for a key.
S3Url(region, key) ==
  HTTPS_PREFIX \o BUCKET_NAME \o S3_INFIX \o region \o AMAZONAWS_SUFFIX \o key

\* The URL of the same object at the global endpoint of S3.
GlobalS3Url(key) ==
  HTTPS_PREFIX \o BUCKET_NAME \o <<".">> \o S3_LITERAL \o SLASH \o key

\* S3Service.getCloudFrontUrl; CLOUDFRONT_DOMAIN is never empty.
GetCloudFrontUrl(region, s3Key) ==
  IF CLOUDFRONT_DOMAIN = NoText THEN S3Url(region, s3Key)
  ELSE HTTPS_PREFIX \o CLOUDFRONT_DOMAIN \o SLASH \o s3Key

\* The handler of POST /api/get-video-url on the body { s3Key, videoUrl }.
GetVideoUrl(region, s3Key, videoUrl) ==
  IF s3Key = NoText /\ videoUrl = NoText THEN [status |-> 400, url |-> NoText]
  ELSE IF /\ videoUrl # NoText
          /\ StartsWith(videoUrl, HTTP_LITERAL)
          /\ ~Includes(videoUrl, S3_LITERAL)
    THEN [status |-> 200, url |-> videoUrl]
  ELSE IF s3Key # NoText THEN [status |-> 200, url |-> GetCloudFrontUrl(region, s3Key)]
  ELSE [status |-> 400, url |-> NoText]

\* The video URLs a body can name.
BodyUrls ==
  {NoText, EXTERNAL_URL, RELATIVE_URL}
    \cup {S3Url(g, k) : g \in AwsRegions, k \in S3Keys}
    \cup {GlobalS3Url(k) : k \in S3Keys}

IdleUrl ==
  [kind |-> "idle", s3Key |-> NoText, videoUrl |-> NoText, status |-> NoStatus,
   url |-> NoText]

\* fetchVideoUrl of VideoItem for a video that uploadVideo stored under key:
\* the body carries the video's s3Key and videoUrl, and the answer is shown.
FetchVideoUrl ==
  /\ urlq.kind = "idle"
  /\ \E key \in S3Keys :
       LET out == GetVideoUrl(awsRegion, key, S3Url(awsRegion, key))
       IN urlq' = [kind |-> "stored", s3Key |-> key, videoUrl |-> S3Url(awsRegion, key),
                   status |-> out.status, url |-> out.url]
  /\ UNCHANGED <<awsRegion, uploadVars, videos, socialVars, feedVars, followVars,
                 authVars, dyn, sync, cl, ses, demo>>

\* POST /api/get-video-url with any other body.
GetVideoUrlRequest ==
  /\ urlq.kind = "idle"
  /\ \E key \in S3Keys \cup {NoText}, videoUrl \in BodyUrls :
       LET out == GetVideoUrl(awsRegion, key, videoUrl)
       IN urlq' = [kind |-> "body", s3Key |-> key, videoUrl |-> videoUrl,
                   status |-> out.status, url |-> out.url]
  /\ UNCHANGED <<awsRegion, uploadVars, videos, socialVars, feedVars, followVars,
                 authVars, dyn, sync, cl, ses, demo>>

(***************************************************************************)
(* POST /api/admin/sync-s3-videos.  The bucket holds the keys of video     *)
(* objects under videos/; requests may overlap.                            *)
(***************************************************************************)
SyncReqs == 1..NumSyncReqs
SyncKeys == 1..MaxSyncKeys

\* The keys of a listing in the order ListObjectsV2 returns them.
RECURSIVE KeysInOrder(_)
KeysInOrder(S) ==
  IF S = {} THEN <<>>
  ELSE LET k == CHOOSE x \in S : \A y \in S : x <= y
       IN <<k>> \o KeysInOrder(S \ {k})

\* S3Service.listS3Videos: the video objects of the bucket.
ListS3Videos == KeysInOrder(bucket)

\* storage.getVideoByS3Key: some row with this key exists.
GetVideoByS3Key(vs, s3Key) == \E i \in 1..Len(vs) : vs[i].s3Key = s3Key

\* The row the sync creates for a key.
SyncVideoRow(k) ==
  [id |-> Len(videos) + 1, userId |-> "anonymous", s3Key |-> k,
   duration |-> NoDuration, isPublic |-> TRUE, viewCount |-> 0, likeCount |-> 0,
   commentCount |-> 0]

IdleSync ==
  [pc |-> "idle", todo |-> <<>>, total |-> 0, synced |-> 0, skipped |-> 0,
   status |-> NoStatus]

\* The loop goes on with the keys that are left, or the request is answered.
SyncContinue(q, rest) ==
  IF rest = <<>> THEN [q EXCEPT !.todo = rest, !.pc = "responded", !.status = 200]
  ELSE [q EXCEPT !.todo = rest, !.pc = "check"]

\* await S3Service.listS3Videos; a failed listing is answered 500.
SyncList(r) ==
  /\ sync[r].pc = "idle"
  /\ \E ok \in BOOLEAN :
       sync' = [sync EXCEPT ![r] =
                  IF ~ok THEN [sync[r] EXCEPT !.pc = "responded", !.status = 500]
                  ELSE SyncContinue([sync[r] EXCEPT !.total = Len(ListS3Videos)],
                                    ListS3Videos)]
  /\ UNCHANGED <<uploadVars, videos, socialVars, feedVars, followVars, authVars,
                 dyn, awsRegion, urlq, cl, ses, demo>>

\* await storage.getVideoByS3Key for the next key: skip it when a row exists.
SyncCheck(r) ==
  /\ sync[r].pc = "check"
  /\ sync' = [sync EXCEPT ![r] =
                IF GetVideoByS3Key(videos, Head(sync[r].todo))
                  THEN SyncContinue([sync[r] EXCEPT !.skipped = @ + 1], Tail(sync[r].todo))
                  ELSE [sync[r] EXCEPT !.pc = "metadata"]]
  /\ UNCHANGED <<uploadVars, videos, socialVars, feedVars, followVars, authVars,
                 dyn, awsRegion, urlq, cl, ses, demo>>

\* await S3Service.getS3VideoMetadata, whose result is not used; then the
\* title and the parse of the row.
SyncMetadata(r) ==
  /\ sync[r].pc = "metadata"
  /\ sync' = [sync EXCEPT ![r] =
                IF InsertVideoSchemaAccepts(TRUE) THEN [sync[r] EXCEPT !.pc = "create"]
                ELSE SyncContinue([sync[r] EXCEPT !.skipped = @ + 1], Tail(sync[r].todo))]
  /\ UNCHANGED <<uploadVars, videos, socialVars, feedVars, followVars, authVars,
                 dyn, awsRegion, urlq, cl, ses, demo>>

\* await storage.createVideo; a rejected row is counted as skipped.
SyncCreate(r) ==
  /\ sync[r].pc = "create"
  /\ IF VideoRowAccepted("anonymous")
       THEN /\ videos' = Append(videos, SyncVideoRow(Head(sync[r].todo)))
            /\ sync' = [sync EXCEPT ![r] =
                 SyncContinue([sync[r] EXCEPT !.synced = @ + 1], Tail(sync[r].todo))]
       ELSE /\ videos' = videos
            /\ sync' = [sync EXCEPT ![r] =
                 SyncContinue([sync[r] EXCEPT !.skipped = @ + 1], Tail(sync[r].todo))]
  /\ UNCHANGED <<uploadVars, socialVars, feedVars, followVars, authVars,
                 dyn, awsRegion, urlq, cl, ses, demo>>

(***************************************************************************)
(* The client feed: VideoFeed and its VideoItems.  An event is handled     *)
(* together with the renders and effects it causes.                        *)
(***************************************************************************)
ClientVideoIds == 1..MaxClientVideos

\* useState(0) of currentIndex.  handleScroll is registered by an effect
\* that runs once, after the first commit, when the scrolling container is
\* not rendered yet (videos is still empty): no scroll event reaches
\* setCurrentIndex.
INITIAL_INDEX == 0

\* A VideoItem that is not mounted.
NoItem ==
  [mounted |-> FALSE, isActive |-> FALSE, isPlaying |-> FALSE,
   loadingVideo |-> FALSE, videoError |-> FALSE, s3Key |-> FALSE]

\* The <video> element of an item is rendered.
HasVideoElement(it) == ~it.loadingVideo /\ ~it.videoError

\* The index of a video in the list, as videos.map counts it.
IndexOf(list, id) == (CHOOSE i \in 1..Len(list) : list[i] = id) - 1

\* isActive={index === currentIndex}.
IsActiveProp(list, currentIndex, id) == IndexOf(list, id) = currentIndex

\* The effect on [isActive] of an item that is mounted already: it returns
\* early when there is no <video> element.
ActiveEffect(it, isActive) ==
  IF ~HasVideoElement(it) THEN [it EXCEPT !.isActive = isActive]
  ELSE [it EXCEPT !.isActive = isActive, !.isPlaying = isActive]

\* The first commit of an item and its effects: fetchVideoUrl starts for a
\* video with an s3Key, and the effect on [isActive] finds the element of
\* the first commit.
MountItem(s3Key, isActive) ==
  [mounted |-> TRUE, isActive |-> isActive, isPlaying |-> isActive,
   loadingVideo |-> s3Key, videoError |-> FALSE, s3Key |-> s3Key]

\* The list GET /api/videos answers when n videos exist: newest first.
ServerList(n) == [i \in 1..n |-> n + 1 - i]

\* VideoFeed renders list: items are keyed by video.id.
RenderFeed(items, list, currentIndex, s3Keys) ==
  [id \in ClientVideoIds |->
     IF ~(\E i \in 1..Len(list) : list[i] = id) THEN NoItem
     ELSE IF ~items[id].mounted
       THEN MountItem(s3Keys[id], IsActiveProp(list, currentIndex, id))
     ELSE IF items[id].isActive # IsActiveProp(list, currentIndex, id)
       THEN ActiveEffect(items[id], IsActiveProp(list, currentIndex, id))
     ELSE items[id]]

\* The page before its first fetch.  fetch is the state of the query of
\* /api/videos (none in flight, sent, answered by the server) and answer the
\* list on its way to the page.
IdleClient ==
  [count |-> 0, s3Keys |-> [id \in ClientVideoIds |-> FALSE], list |-> <<>>,
   currentIndex |-> INITIAL_INDEX, items |-> [id \in ClientVideoIds |-> NoItem],
   fetch |-> "none", answer |-> <<>>,
   last |-> <<"none", 0>>]

ClientUnchanged ==
  UNCHANGED <<uploadVars, videos, socialVars, feedVars, followVars, authVars,
              dyn, awsRegion, urlq, sync, ses, demo>>

\* Somebody uploads a video, stored in S3 or given by its URL.
ClientVideoCreated ==
  /\ cl.count < MaxClientVideos
  /\ \E s3Key \in BOOLEAN :
       cl' = [cl EXCEPT !.count = @ + 1, !.s3Keys[cl.count + 1] = s3Key,
                        !.last = <<"created", cl.count + 1>>]
  /\ ClientUnchanged

\* useQuery starts a fetch of /api/videos: the first load, or a refetch
\* after invalidateQueries.
FeedQuerySent ==
  /\ cl.fetch = "none"
  /\ cl' = [cl EXCEPT !.fetch = "sent", !.last = <<"sent", 0>>]
  /\ ClientUnchanged

\* GET /api/videos is served: the answer lists the videos that exist now.
FeedQueryServed ==
  /\ cl.fetch = "sent"
  /\ cl' = [cl EXCEPT !.fetch = "answered", !.answer = ServerList(cl.count),
                      !.last = <<"served", 0>>]
  /\ ClientUnchanged

\* The answer arrives at the page: setVideos(fetchedVideos), then the
\* render of the list.
FeedFetched ==
  /\ cl.fetch = "answered"
  /\ cl' = [cl EXCEPT !.fetch = "none", !.answer = <<>>,
                      !.list = cl.answer,
                      !.items = RenderFeed(cl.items, cl.answer, cl.currentIndex, cl.s3Keys),
                      !.last = <<"fetched", 0>>]
  /\ ClientUnchanged

\* fetchVideoUrl of an item ends: with a URL, or in its catch block, which
\* sets videoError.
VideoUrlFetched ==
  /\ \E id \in ClientVideoIds, ok \in BOOLEAN :
       /\ cl.items[id].mounted
       /\ cl.items[id].loadingVideo
       /\ cl' = [cl EXCEPT !.items[id].loadingVideo = FALSE,
                           !.items[id].videoError = ~ok,
                           !.last = <<"url", id>>]
  /\ ClientUnchanged

\* onError of the <video> element.
VideoElementError ==
  /\ \E id \in ClientVideoIds :
       /\ cl.items[id].mounted
       /\ HasVideoElement(cl.items[id])
       /\ cl' = [cl EXCEPT !.items[id].videoError = TRUE, !.last = <<"error", id>>]
  /\ ClientUnchanged

\* togglePlay: a click on the video or on the play button of an item.
TogglePlay ==
  /\ \E id \in ClientVideoIds :
       /\ cl.items[id].mounted
       /\ cl' = [cl EXCEPT !.items[id].isPlaying =
                             IF cl.items[id].isActive THEN ~@ ELSE @,
                           !.last = <<"toggle", id>>]
  /\ ClientUnchanged

(***************************************************************************)
(* Specifications.                                                         *)
(***************************************************************************)
UploadReqs == {1}

Envs ==
  [deepgram : BOOLEAN, gemini : BOOLEAN, s3 : BOOLEAN,
   multerLimit : {MULTER_LIMIT_EDU, MULTER_LIMIT_S3}]

\* A video row as POST /api/videos with a videoUrl creates it.
UrlVideoRow(i) ==
  [id |-> i, userId |-> "anonymous", s3Key |-> NoKey, duration |-> NoDuration,
   isPublic |-> TRUE, viewCount |-> 0, likeCount |-> 0, commentCount |-> 0]

(***************************************************************************)
(* POST /api/admin/upload-demo-videos: uploadDemoVideos('anonymous') puts  *)
(* the demo videos into the bucket, then the route stores a row for each   *)
(* uploaded one.                                                           *)
(***************************************************************************)
\* The number of entries of demoVideos.
DEMO_VIDEOS == 3

IdleDemo ==
  [pc |-> "idle", idx |-> 0, uploaded |-> <<>>, todo |-> <<>>, saved |-> 0,
   status |-> NoStatus, served |-> 0]

\* The row the route stores for a demo video uploaded under key k.
DemoVideoRow(k) ==
  [id |-> Len(videos) + 1, userId |-> "anonymous", s3Key |-> k,
   duration |-> NoDuration, isPublic |-> TRUE, viewCount |-> 0, likeCount |-> 0,
   commentCount |-> 0]

\* After the loop of uploadDemoVideos over entry idx: the next entry, or the
\* route's loop over the uploaded ones, or the answer when that loop is over.
DemoContinue(d) ==
  IF d.idx < DEMO_VIDEOS THEN [d EXCEPT !.idx = @ + 1]
  ELSE IF d.pc = "upload" /\ d.uploaded # <<>>
    THEN [d EXCEPT !.pc = "save", !.todo = d.uploaded]
  ELSE IF d.pc = "save" /\ d.todo # <<>> THEN d
  ELSE [d EXCEPT !.pc = "responded", !.status = 200]

\* The request arrives; uploadDemoVideos starts with the first entry.
DemoReceive ==
  /\ demo.pc = "idle"
  /\ demo.served < NumDemoReqs
  /\ demo' = [IdleDemo EXCEPT !.pc = "upload", !.idx = 1, !.served = demo.served]
  /\ UNCHANGED <<env, bucket, nextKey, upl, videos, socialVars, feedVars, followVars,
                 authVars, dyn, awsRegion, urlq, sync, cl, ses>>

\* One entry of demoVideos: await fetch, await response.buffer() and await
\* S3Service.uploadVideo; a failed download or PutObject is caught and the
\* entry is skipped.
DemoUpload ==
  /\ demo.pc = "upload"
  /\ \E fetched \in BOOLEAN, sent \in (IF S3IsConfigured THEN BOOLEAN ELSE {FALSE}) :
       LET u == UploadVideo(sent)
       IN IF fetched /\ u.stored
            THEN /\ bucket' = bucket \cup {u.key}
                 /\ nextKey' = nextKey + 1
                 /\ demo' = DemoContinue([demo EXCEPT !.uploaded = Append(@, u.key)])
            ELSE /\ UNCHANGED <<bucket, nextKey>>
                 /\ demo' = DemoContinue(demo)
  /\ UNCHANGED <<env, upl, videos, socialVars, feedVars, followVars,
                 authVars, dyn, awsRegion, urlq, sync, cl, ses>>

\* One uploaded entry in the route: insertVideoSchema.parse and await
\* storage.createVideo; a failure is caught and the entry is skipped.  After
\* the last entry the route answers 200 with the counts.
DemoSave ==
  /\ demo.pc = "save"
  /\ \E ok \in BOOLEAN :
       LET d == [demo EXCEPT !.todo = Tail(@)]
       IN IF ok
            THEN /\ videos' = Append(videos, DemoVideoRow(Head(demo.todo)))
                 /\ demo' = DemoContinue([d EXCEPT !.saved = @ + 1])
            ELSE /\ videos' = videos
                 /\ demo' = DemoContinue(d)
  /\ UNCHANGED <<env, bucket, nextKey, upl, socialVars, feedVars, followVars,
                 authVars, dyn, awsRegion, urlq, sync, cl, ses>>

\* The answered request leaves the server.
DemoFinish ==
  /\ demo.pc = "responded"
  /\ demo' = [IdleDemo EXCEPT !.served = demo.served + 1]
  /\ UNCHANGED <<env, bucket, nextKey, upl, videos, socialVars, feedVars, followVars,
                 authVars, dyn, awsRegion, urlq, sync, cl, ses>>

(***************************************************************************)
(* The admin routes of the authenticated route set, registered without     *)
(* middleware.                                                             *)
(***************************************************************************)
AuthUnchanged ==
  UNCHANGED <<lateVars, env, upl, socialVars, feedVars, followVars, dlikes, dcomments>>

\* POST /api/admin/upload-demo-videos: the imports of this route set do not
\* bind uploadDemoVideos, so the call throws a ReferenceError before
\* anything is fetched or uploaded, and the catch block of the route answers
\* 500.
AuthDemoReceive ==
  /\ AuthIdle
  /\ \E user \in Sessions :
       areq' = AuthRespond([FreshAuth EXCEPT !.route = "demo", !.user = user], 500)
  /\ UNCHANGED <<bucket, nextKey, videos>>
  /\ AuthUnchanged

\* The sync loop goes on with the keys that are left, or the request is
\* answered.
AuthSyncContinue(q, rest) ==
  IF rest = <<>> THEN AuthRespond([q EXCEPT !.todo = rest], 200)
  ELSE [q EXCEPT !.todo = rest, !.pc = "check"]

\* POST /api/admin/sync-s3-videos: await S3Service.listS3Videos; a failed
\* listing is answered 500.
AuthSyncList ==
  /\ AuthIdle
  /\ \E user \in Sessions, ok \in BOOLEAN :
       LET q == [FreshAuth EXCEPT !.route = "sync", !.user = user]
       IN areq' = IF ~ok THEN AuthRespond(q, 500) ELSE AuthSyncContinue(q, ListS3Videos)
  /\ UNCHANGED <<bucket, nextKey, videos>>
  /\ AuthUnchanged

\* await storage.getVideoByS3Key for the next key: skip it when a row exists.
AuthSyncCheck ==
  /\ areq.route = "sync"
  /\ areq.pc = "check"
  /\ areq' = IF GetVideoByS3Key(videos, Head(areq.todo))
               THEN AuthSyncContinue(areq, Tail(areq.todo))
               ELSE [areq EXCEPT !.pc = "create"]
  /\ UNCHANGED <<bucket, nextKey, videos>>
  /\ AuthUnchanged

\* await S3Service.getS3VideoMetadata, insertVideoSchema.parse and await
\* storage.createVideo; whatever is thrown is caught and the key is skipped.
AuthSyncCreate ==
  /\ areq.route = "sync"
  /\ areq.pc = "create"
  /\ IF UnboundInsertVideoSchema(TRUE) = "parsed" /\ VideoRowAccepted("anonymous")
       THEN /\ videos' = Append(videos, SyncVideoRow(Head(areq.todo)))
            /\ areq' = AuthSyncContinue([areq EXCEPT !.saved = @ + 1], Tail(areq.todo))
       ELSE /\ videos' = videos
            /\ areq' = AuthSyncContinue(areq, Tail(areq.todo))
  /\ UNCHANGED <<bucket, nextKey>>
  /\ AuthUnchanged

(***************************************************************************)
(* checkIfEducational(videoUrl, s3Key): asks Gemini about the video and    *)
(* deletes the object from the bucket when the answer holds "NO".  No      *)
(* route calls it.                                                         *)
(***************************************************************************)
LOWER_CASE ==
  <<"a", "b", "c", "d", "e", "f", "g", "h", "i", "j", "k", "l", "m",
    "n", "o", "p", "q", "r", "s", "t", "u", "v", "w", "x", "y", "z">>
UPPER_CASE ==
  <<"A", "B", "C", "D", "E", "F", "G", "H", "I", "J", "K", "L", "M",
    "N", "O", "P", "Q", "R", "S", "T", "U", "V", "W", "X", "Y", "Z">>

\* String.prototype.toUpperCase on the letters a to z.
ToUpperCase(s) ==
  [i \in 1..Len(s) |->
     IF \E j \in 1..Len(LOWER_CASE) : LOWER_CASE[j] = s[i]
       THEN UPPER_CASE[CHOOSE j \in 1..Len(LOWER_CASE) : LOWER_CASE[j] = s[i]]
       ELSE s[i]]

\* The text the answer is searched for.
NO_LITERAL == <<"N", "O">>

\* Answers of callGeminiAPI.
GeminiAnswers ==
  {<<"Y", "E", "S">>, <<"N", "O", ".">>, <<"n", "o">>,
   <<"Y", "e", "s", ".", " ", "K", "n", "o", "w", "n">>}

\* The keys a caller may name: those handed out so far and the next one.
CheckKeys == 1..nextKey

\* S3Service.deleteVideo: a DeleteObject that succeeded removes the object
\* (and is no error when there is none); a failed one throws.
DeleteVideo(b, key, sent) ==
  IF sent THEN [threw |-> FALSE, bucket |-> b \ {key}]
  ELSE [threw |-> TRUE, bucket |-> b]

\* One call of checkIfEducational: await extractAudioOrFrames, await
\* callGeminiAPI, and await S3Service.deleteVideo for an answer that holds
\* "NO"; whatever is thrown is caught and logged.
CheckIfEducational ==
  /\ \E s3Key \in CheckKeys, extracted \in BOOLEAN, answered \in BOOLEAN,
        result \in GeminiAnswers, sent \in BOOLEAN :
       bucket' = IF extracted /\ answered /\ Includes(ToUpperCase(result), NO_LITERAL)
                   THEN DeleteVideo(bucket, s3Key, sent).bucket
                   ELSE bucket
  /\ UNCHANGED <<env, nextKey, upl, videos, socialVars, restVars>>

(***************************************************************************)
(* The route set behind Replit auth (the first registerRoutes): the user   *)
(* of a request is the signed-in one, whose users row the login upserted.  *)
(***************************************************************************)
\* isAuthenticated lets the request through when it carries a signed-in
\* user and answers 401 otherwise.
IsAuthenticated(user) == user # NoUser

\* The callers of a request: nobody, or a user that has logged in.
ReplitCallers == {NoUser} \cup users

\* The duration a body of POST /api/videos names: none, or a number.
BodyDurations == {NoDuration, 1}

\* The row createVideo inserts for POST /api/videos: the body is spread into
\* the parsed object, userId is the caller's.
ReplitVideoRow(userId, k, d, pub) ==
  [id |-> Len(videos) + 1, userId |-> userId, s3Key |-> k, duration |-> d,
   isPublic |-> pub, viewCount |-> 0, likeCount |-> 0, commentCount |-> 0]

\* storage.upsertUser: INSERT INTO users ... ON CONFLICT (id) DO UPDATE.
UpsertUser ==
  /\ \E u \in Users : users' = users \cup {u}
  /\ UNCHANGED <<uploadVars, videos, socialVars, feed, followVars, authVars, lateVars>>

\* POST /api/videos: isAuthenticated, insertVideoSchema.parse of the body
\* with the caller's userId, await storage.createVideo and the 201 answer; a
\* ZodError is answered 400, any other error 500.
ReplitCreateVideo(r) ==
  /\ NextToArrive(r)
  /\ Len(videos) < MaxVideos
  /\ \E u \in ReplitCallers, hasUrl \in BOOLEAN, k \in BodyKeys, d \in BodyDurations,
        pub \in BOOLEAN, ok \in BOOLEAN :
       LET q == [IdleSocial EXCEPT !.kind = "create", !.userId = u, !.pc = "responded"]
       IN IF ~IsAuthenticated(u)
            THEN videos' = videos /\ soc' = [soc EXCEPT ![r] = [q EXCEPT !.status = 401]]
          ELSE IF ~InsertVideoSchemaAccepts(hasUrl)
            THEN videos' = videos /\ soc' = [soc EXCEPT ![r] = [q EXCEPT !.status = 400]]
          ELSE IF ~ok \/ ~VideoRowAccepted(u)
            THEN videos' = videos /\ soc' = [soc EXCEPT ![r] = [q EXCEPT !.status = 500]]
          ELSE /\ videos' = Append(videos, ReplitVideoRow(u, k, d, pub))
               /\ soc' = [soc EXCEPT ![r] = [q EXCEPT !.status = 201]]
  /\ UNCHANGED <<restVars, uploadVars, likes, comments, nextRowId>>

\* POST /api/videos/:id/like: isAuthenticated, then the handler up to the
\* answer of isVideoLiked for the caller.
ReplitLikeRead(r) ==
  /\ NextToArrive(r)
  /\ \E u \in ReplitCallers, vid \in RequestVideoIds :
       LET q == [IdleSocial EXCEPT !.kind = "like", !.userId = u, !.vid = vid]
           isLiked == IsVideoLiked(u, vid)
       IN soc' = [soc EXCEPT ![r] =
            IF ~IsAuthenticated(u) THEN [q EXCEPT !.pc = "responded", !.status = 401]
            ELSE [q EXCEPT !.isLiked = isLiked,
                           !.pc = IF isLiked THEN "unlike_delete" ELSE "like_insert"]]
  /\ UNCHANGED <<restVars, uploadVars, videos, likes, comments, nextRowId>>

\* POST /api/videos/:id/comments: isAuthenticated, insertCommentSchema.parse
\* with the caller's userId, then createComment's INSERT; a ZodError is
\* answered 400, a rejected row 500.
ReplitCommentInsert(r) ==
  /\ NextToArrive(r)
  /\ \E u \in ReplitCallers, vid \in RequestVideoIds, valid \in BOOLEAN :
       LET q == [IdleSocial EXCEPT !.kind = "comment", !.userId = u, !.vid = vid]
       IN IF ~IsAuthenticated(u)
            THEN /\ soc' = [soc EXCEPT ![r] = [q EXCEPT !.pc = "responded", !.status = 401]]
                 /\ UNCHANGED <<comments, nextRowId>>
          ELSE IF ~valid
            THEN /\ soc' = [soc EXCEPT ![r] = [q EXCEPT !.pc = "responded", !.status = 400]]
                 /\ UNCHANGED <<comments, nextRowId>>
          ELSE IF ~CommentRowAccepted(vid)
            THEN /\ soc' = [soc EXCEPT ![r] = [q EXCEPT !.pc = "responded", !.status = 500]]
                 /\ UNCHANGED <<comments, nextRowId>>
          ELSE /\ comments' = comments \cup {[id |-> nextRowId, userId |-> u, videoId |-> vid]}
               /\ nextRowId' = nextRowId + 1
               /\ soc' = [soc EXCEPT ![r] = [q EXCEPT !.pc = "comment_count"]]
  /\ UNCHANGED <<restVars, uploadVars, videos, likes>>

(***************************************************************************)
(* The like button of VideoItem against the direct-access route set.       *)
(* Several client sessions (browser tabs) of the one user 'anonymous' show *)
(* the same video.  The requests of the sessions overlap on the server;    *)
(* each is served by the statements of the like route, one step each.      *)
(***************************************************************************)
ClientSessions == 1..NumSessions

\* The user of every request of the direct-access route set.
DIRECT_USER == "anonymous"

\* The userId the direct-access GET /api/videos passes to getVideos: null.
NULL_USER == "null"

\* isLiked of a row of getVideos(userId): false when no user is given.
FeedIsLiked(userId, vid) ==
  IF userId = NULL_USER THEN FALSE ELSE IsVideoLiked(userId, vid)

\* The video object GET /api/videos of the direct-access set hands to
\* VideoItem: the route calls getVideos(null, limit, offset).
FeedVideo(vid) ==
  [id |-> vid, isLiked |-> FeedIsLiked(NULL_USER, vid), likeCount |-> videos[vid].likeCount]

\* The answer of GET /api/videos, by video id; every video of this server
\* is public.  The newest video comes first in the list.
FeedAnswer == [vid \in 1..Len(videos) |-> FeedVideo(vid)]
FirstOfFeed(answer) == Len(answer)

\* No like request of the session is in flight.
NoRequest == 0

\* A session that has not mounted its VideoItem.  fetch is the state of its
\* query of /api/videos (none in flight, sent, answered by the server), feed
\* the answer on its way to the page, views the videos of the view requests
\* the session has sent that the server has not served yet, and loads the
\* number of times the page was loaded.
IdleSession ==
  [mounted |-> FALSE, vid |-> 0, liked |-> FALSE, likeCount |-> 0, req |-> NoRequest,
   status |-> NoStatus, answer |-> FALSE, fetch |-> "none", feed |-> <<>>,
   views |-> <<>>, loads |-> 0]

\* onSuccess of likeMutation: setLiked(!liked); the answer is not used.
OnSuccessLiked(liked, answer) == ~liked

\* onSuccess of likeMutation: setLikeCount(prev => liked ? prev - 1 : prev + 1).
OnSuccessLikeCount(liked, prev) == IF liked THEN prev - 1 ELSE prev + 1

SessionUnchanged ==
  UNCHANGED <<uploadVars, feedVars, followVars, authVars, dyn, awsRegion, urlq, sync,
              cl, demo>>

\* The page of the session is loaded (first load or a reload): useQuery
\* sends GET /api/videos.  The state of the page and the answer of a like
\* request it had in flight are lost with it; the requests it has sent stay
\* on their way.
SessionLoad(s) ==
  /\ ses[s].loads < MaxPageLoads
  /\ ses' = [ses EXCEPT ![s] = [IdleSession EXCEPT !.fetch = "sent",
                                                   !.views = ses[s].views,
                                                   !.loads = ses[s].loads + 1]]
  /\ UNCHANGED <<soc, videos, likes, comments, nextRowId>>
  /\ SessionUnchanged

\* GET /api/videos of the session is served: getVideos(null, limit, offset)
\* reads the rows as they are now.
SessionFeedServed(s) ==
  /\ ses[s].fetch = "sent"
  /\ ses' = [ses EXCEPT ![s].fetch = "answered", ![s].feed = FeedAnswer]
  /\ UNCHANGED <<soc, videos, likes, comments, nextRowId>>
  /\ SessionUnchanged

\* The answer arrives and the VideoItem of a video of the answer mounts:
\* useState(video.isLiked || false) and useState(video.likeCount || 0) take
\* the values of the answer.  The item the feed shows first is the active
\* one: its effect on isActive calls viewMutation.mutate(), which sends
\* POST /api/videos/:id/view.
SessionMount(s) ==
  /\ ses[s].fetch = "answered"
  /\ \E vid \in 1..Len(ses[s].feed) :
       LET video == ses[s].feed[vid]
           isActive == vid = FirstOfFeed(ses[s].feed)
       IN ses' = [ses EXCEPT ![s] = [IdleSession EXCEPT
                   !.mounted = TRUE, !.vid = vid,
                   !.liked = video.isLiked,
                   !.likeCount = video.likeCount,
                   !.loads = ses[s].loads,
                   !.views = IF isActive THEN Append(ses[s].views, vid)
                             ELSE ses[s].views]]
  /\ UNCHANGED <<soc, videos, likes, comments, nextRowId>>
  /\ SessionUnchanged

\* A tap on the like button (enabled while no mutation is pending):
\* likeMutation.mutate() sends POST /api/videos/:id/like.
SessionTap(s) ==
  /\ ses[s].mounted
  /\ ses[s].req = NoRequest
  /\ \E r \in SocialReqs :
       /\ NextToArrive(r)
       /\ soc' = [soc EXCEPT ![r] =
            [IdleSocial EXCEPT !.kind = "like", !.userId = DIRECT_USER,
                               !.vid = ses[s].vid, !.pc = "sent"]]
       /\ ses' = [ses EXCEPT ![s].req = r]
  /\ UNCHANGED <<videos, likes, comments, nextRowId>>
  /\ SessionUnchanged

\* POST /api/videos/:id/view of a session is served: one UPDATE, then
\* { success: true }, which the page does not use.
SessionView(s) ==
  /\ ses[s].views # <<>>
  /\ videos' = IncrementViewCount(videos, Head(ses[s].views))
  /\ ses' = [ses EXCEPT ![s].views = Tail(@)]
  /\ UNCHANGED <<soc, likes, comments, nextRowId>>
  /\ SessionUnchanged

\* POST /api/videos/:id/like of a session reaches its handler, which runs up
\* to the answer of isVideoLiked for 'anonymous'.
SessionLikeRead(r) ==
  /\ soc[r].kind = "like"
  /\ soc[r].pc = "sent"
  /\ LET isLiked == IsVideoLiked(soc[r].userId, soc[r].vid)
     IN soc' = [soc EXCEPT ![r].isLiked = isLiked,
                           ![r].pc = IF isLiked THEN "unlike_delete" ELSE "like_insert"]
  /\ UNCHANGED <<ses, videos, likes, comments, nextRowId>>
  /\ SessionUnchanged

\* The answer of the session's request arrives: onSuccess for a 200,
\* onError (a toast, no change of liked or likeCount) otherwise.
SessionAnswered(s) ==
  LET q == soc[ses[s].req]
  IN /\ ses[s].req # NoRequest
     /\ q.pc = "responded"
     /\ ses' = [ses EXCEPT ![s] =
          IF q.status = 200
            THEN [@ EXCEPT !.req = NoRequest, !.status = q.status, !.answer = q.liked,
                           !.liked = OnSuccessLiked(ses[s].liked, q.liked),
                           !.likeCount = OnSuccessLikeCount(ses[s].liked, ses[s].likeCount)]
            ELSE [@ EXCEPT !.req = NoRequest, !.status = q.status]]
     /\ UNCHANGED <<soc, videos, likes, comments, nextRowId>>
     /\ SessionUnchanged

\* No request of the later sections was made.
LateRest ==
  /\ dyn = [r \in DynReqs |-> IdleDyn]
  /\ urlq = IdleUrl
  /\ sync = [r \in SyncReqs |-> IdleSync]
  /\ cl = IdleClient
  /\ ses = [s \in ClientSessions |-> IdleSession]
  /\ demo = IdleDemo

\* The same in the region us-east-1.
LateIdle ==
  /\ awsRegion = REGION_US_EAST_1
  /\ LateRest

\* Every user the requests name is registered; no feed, follow or
\* authenticated request was made and the DynamoDB tables are empty.
RestIdle ==
  /\ users = Users
  /\ feed = IdleFeed
  /\ follows = NoFollows
  /\ fol = [r \in FollowReqs |-> IdleFollow]
  /\ areq = IdleAuth
  /\ dlikes = {}
  /\ dcomments = {}
  /\ LateIdle

\* The server after start-up, with an empty store.
Init ==
  /\ env \in Envs
  /\ bucket = {}
  /\ nextKey = 1
  /\ videos = <<>>
  /\ upl = [r \in UploadReqs |-> IdleUpload]
  /\ likes = {}
  /\ comments = {}
  /\ nextRowId = 1
  /\ soc = [r \in SocialReqs |-> IdleSocial]
  /\ RestIdle

Next ==
  \E r \in UploadReqs :
    \/ ReceiveFile(r)
    \/ ReceiveUrl(r)
    \/ ReceiveNothing(r)
    \/ ReceiveMetadata(r)
    \/ Probe(r)
    \/ Transcribe(r)
    \/ Classify(r)
    \/ S3Put(r)
    \/ Insert(r)
    \/ FinishUpload(r)

Spec == Init /\ [][Next]_vars

\* The upload routes together with the demo upload, which may overlap.
NextDemo ==
  \/ Next
  \/ DemoReceive
  \/ DemoUpload
  \/ DemoSave
  \/ DemoFinish

SpecDemo == Init /\ [][NextDemo]_vars

\* The upload routes together with calls of checkIfEducational.
NextCheck ==
  \/ Next
  \/ CheckIfEducational

SpecCheck == Init /\ [][NextCheck]_vars

\* The server with NumVideos videos already uploaded by URL and no request
\* in flight.
InitSocial ==
  /\ env = [deepgram |-> TRUE, gemini |-> TRUE, s3 |-> TRUE, multerLimit |-> MULTER_LIMIT_EDU]
  /\ bucket = {}
  /\ nextKey = 1
  /\ videos = [i \in 1..NumVideos |-> UrlVideoRow(i)]
  /\ upl = [r \in UploadReqs |-> IdleUpload]
  /\ likes = {}
  /\ comments = {}
  /\ nextRowId = 1
  /\ soc = [r \in SocialReqs |-> IdleSocial]
  /\ RestIdle

NextSocial ==
  \E r \in SocialReqs :
    \/ ViewRequest(r)
    \/ LikeRead(r)
    \/ LikeInsert(r)
    \/ LikeCount(r)
    \/ UnlikeDelete(r)
    \/ UnlikeCount(r)
    \/ CommentInsert(r)
    \/ CommentCount(r)

SpecSocial == InitSocial /\ [][NextSocial]_vars

\* Overlapping like requests against a likes table that is guarded by the
\* statements of the server alone.
NextLikeRace ==
  \E r \in SocialReqs :
    \/ LikeRead(r)
    \/ LikeInsertUnguarded(r)
    \/ LikeCount(r)
    \/ UnlikeDelete(r)
    \/ UnlikeCount(r)

SpecLikeRace == InitSocial /\ [][NextLikeRace]_vars

\* The server of the route set behind Replit auth with NumVideos videos of
\* one user; the other users have not logged in yet.
InitReplit ==
  /\ env = [deepgram |-> TRUE, gemini |-> TRUE, s3 |-> TRUE, multerLimit |-> MULTER_LIMIT_EDU]
  /\ bucket = {}
  /\ nextKey = 1
  /\ videos = [i \in 1..NumVideos |-> UrlVideoRow(i)]
  /\ upl = [r \in UploadReqs |-> IdleUpload]
  /\ likes = {}
  /\ comments = {}
  /\ nextRowId = 1
  /\ soc = [r \in SocialReqs |-> IdleSocial]
  /\ users = {"anonymous"}
  /\ feed = IdleFeed
  /\ follows = NoFollows
  /\ fol = [r \in FollowReqs |-> IdleFollow]
  /\ areq = IdleAuth
  /\ dlikes = {}
  /\ dcomments = {}
  /\ LateIdle

NextReplit ==
  \/ UpsertUser
  \/ \E r \in SocialReqs :
       \/ ReplitCreateVideo(r)
       \/ ViewRequest(r)
       \/ ReplitLikeRead(r)
       \/ LikeInsert(r)
       \/ LikeCount(r)
       \/ UnlikeDelete(r)
       \/ UnlikeCount(r)
       \/ ReplitCommentInsert(r)
       \/ CommentCount(r)

SpecReplit == InitReplit /\ [][NextReplit]_vars

\* The comment route of the route set behind Replit auth with requests that
\* may overlap, while users log in and videos are created.
NextComment ==
  \/ UpsertUser
  \/ \E r \in SocialReqs :
       \/ ReplitCreateVideo(r)
       \/ ReplitCommentInsert(r)
       \/ CommentCount(r)

SpecComment == InitReplit /\ [][NextComment]_vars

\* No request is being served: every request received so far was answered.
Quiet ==
  /\ \A p \in SocialReqs : soc[p].pc \in {"idle", "responded"}
  /\ \A p \in UploadReqs : upl[p].pc \in {"idle", "responded"}

\* The relational routes with requests that do not overlap in time: a request
\* is received only when no other one is being served.  A video is created by
\* POST /api/videos with a videoUrl.
NextSeq ==
  \/ \E r \in SocialReqs :
       \/ Quiet /\ ViewRequest(r)
       \/ Quiet /\ LikeRead(r)
       \/ LikeInsert(r)
       \/ LikeCount(r)
       \/ UnlikeDelete(r)
       \/ UnlikeCount(r)
       \/ Quiet /\ CommentInsert(r)
       \/ CommentCount(r)
  \/ \E u \in UploadReqs :
       \/ Quiet /\ ReceiveUrl(u)
       \/ Insert(u)

SpecSeq == InitSocial /\ [][NextSeq]_vars

\* The server with every user registered, nobody following anybody, and
\* follow requests that may overlap.
NextFollow ==
  \E r \in FollowReqs :
    \/ FollowRead(r)
    \/ FollowInsert(r)
    \/ UnfollowDelete(r)

SpecFollow == InitSocial /\ [][NextFollow]_vars

\* The server of the authenticated route set with NumVideos videos, every
\* owner and every user that can sign in registered, empty DynamoDB tables,
\* and the objects b in the bucket.
InitAuthWith(b) ==
  /\ env \in {e \in Envs : e.deepgram /\ e.gemini /\ e.s3}
  /\ bucket = b
  /\ nextKey = Cardinality(b) + 1
  /\ videos = [i \in 1..NumVideos |-> UrlVideoRow(i)]
  /\ upl = [r \in UploadReqs |-> IdleUpload]
  /\ likes = {}
  /\ comments = {}
  /\ nextRowId = 1
  /\ soc = [r \in SocialReqs |-> IdleSocial]
  /\ users = Users \cup AuthUsers
  /\ feed = IdleFeed
  /\ follows = NoFollows
  /\ fol = [r \in FollowReqs |-> IdleFollow]
  /\ areq = IdleAuth
  /\ dlikes = {}
  /\ dcomments = {}
  /\ LateIdle

\* The same with an empty bucket.
InitAuth == InitAuthWith({})

\* The bucket outlives the server: it is empty, or it holds one video object
\* that was put there earlier and has no row.
InitAuthBucket == \E b \in SUBSET {NoKey + 1} : InitAuthWith(b)

NextAuth ==
  \/ AuthUploadReceive
  \/ AuthProbe
  \/ AuthMetadata
  \/ AuthView
  \/ AuthLikeLookup
  \/ AuthLikeRead
  \/ AuthLikeWrite
  \/ AuthLikeCount
  \/ AuthCommentLookup
  \/ AuthCommentPut
  \/ AuthDeleteComment
  \/ AuthGetVideo
  \/ AuthGetLikeCount
  \/ AuthGetCommentCount
  \/ AuthGetUserLike
  \/ AuthGetVideos
  \/ AuthDemoReceive
  \/ AuthSyncList
  \/ AuthSyncCheck
  \/ AuthSyncCreate
  \/ AuthFinish

SpecAuth == InitAuthBucket /\ [][NextAuth]_vars

\* The same server with like requests that may overlap.
NextDyn ==
  \E r \in DynReqs :
    \/ DynLikeLookup(r)
    \/ DynLikeRead(r)
    \/ DynLikeWrite(r)
    \/ DynLikeCount(r)

SpecDyn == InitAuth /\ [][NextDyn]_vars

\* GET /api/videos/:id served while like requests are served: the answers
\* of its Promise.all interleave with the writes of the like route.
NextGet ==
  \/ NextDyn
  \/ AuthGetVideo
  \/ AuthGetLikeCount
  \/ AuthGetCommentCount
  \/ AuthGetUserLike
  \/ AuthFinish

SpecGet == InitAuth /\ [][NextGet]_vars

\* The server in any region, and a client that has asked for no URL yet.
InitUrl ==
  /\ env = [deepgram |-> TRUE, gemini |-> TRUE, s3 |-> TRUE, multerLimit |-> MULTER_LIMIT_EDU]
  /\ bucket = {}
  /\ nextKey = 1
  /\ videos = <<>>
  /\ upl = [r \in UploadReqs |-> IdleUpload]
  /\ likes = {}
  /\ comments = {}
  /\ nextRowId = 1
  /\ soc = [r \in SocialReqs |-> IdleSocial]
  /\ users = Users
  /\ feed = IdleFeed
  /\ follows = NoFollows
  /\ fol = [r \in FollowReqs |-> IdleFollow]
  /\ areq = IdleAuth
  /\ dlikes = {}
  /\ dcomments = {}
  /\ awsRegion \in AwsRegions
  /\ LateRest

NextUrl ==
  \/ FetchVideoUrl
  \/ GetVideoUrlRequest

SpecUrl == InitUrl /\ [][NextUrl]_vars

\* The durations a row with an s3Key carries: the measured one of a file
\* upload (the validation lets 1..MAX_DURATION_SECONDS through), or none for
\* a row of POST /api/videos/metadata, the sync or the demo upload.
StoredDurations == {NoDuration, 1, MAX_DURATION_SECONDS}

\* The row of a video that was uploaded to S3 under key k, with duration d
\* and the isPublic of the request body.
StoredVideoRow(i, k, d, pub) ==
  [id |-> i, userId |-> "anonymous", s3Key |-> k, duration |-> d, isPublic |-> pub,
   viewCount |-> 0, likeCount |-> 0, commentCount |-> 0]

\* The server with some video objects in the bucket, some of them with a
\* row of their own already, and no sync request made.
InitSync ==
  /\ env = [deepgram |-> TRUE, gemini |-> TRUE, s3 |-> TRUE, multerLimit |-> MULTER_LIMIT_EDU]
  /\ bucket \in SUBSET SyncKeys
  /\ nextKey = MaxSyncKeys + 1
  /\ \E known \in SUBSET bucket :
       \E d \in [1..Cardinality(known) -> StoredDurations],
          pub \in [1..Cardinality(known) -> BOOLEAN] :
         videos = [i \in 1..Cardinality(known) |->
                     StoredVideoRow(i, KeysInOrder(known)[i], d[i], pub[i])]
  /\ upl = [r \in UploadReqs |-> IdleUpload]
  /\ likes = {}
  /\ comments = {}
  /\ nextRowId = 1
  /\ soc = [r \in SocialReqs |-> IdleSocial]
  /\ RestIdle

NextSync ==
  \E r \in SyncReqs :
    \/ SyncList(r)
    \/ SyncCheck(r)
    \/ SyncMetadata(r)
    \/ SyncCreate(r)

SpecSync == InitSync /\ [][NextSync]_vars

\* The client feed before the first answer of /api/videos.
NextClient ==
  \/ ClientVideoCreated
  \/ FeedQuerySent
  \/ FeedQueryServed
  \/ FeedFetched
  \/ VideoUrlFetched
  \/ VideoElementError
  \/ TogglePlay

SpecClient == InitSocial /\ [][NextClient]_vars

\* Client sessions of the anonymous user tapping the like button.
NextLikeUi ==
  \/ \E s \in ClientSessions :
       \/ SessionLoad(s)
       \/ SessionFeedServed(s)
       \/ SessionMount(s)
       \/ SessionView(s)
       \/ SessionTap(s)
       \/ SessionAnswered(s)
  \/ \E r \in SocialReqs :
       \/ SessionLikeRead(r)
       \/ LikeInsert(r)
       \/ LikeCount(r)
       \/ UnlikeDelete(r)
       \/ UnlikeCount(r)

SpecLikeUi == InitSocial /\ [][NextLikeUi]_vars

\* A video row of the feed store: created by POST /api/videos for owner u.
FeedRow(i, u, pub) == [UrlVideoRow(i) EXCEPT !.userId = u, !.isPublic = pub]

\* The server with up to MaxFeedVideos videos, public or not, each owned by a
\* registered user, and a client that has asked nothing yet.
InitFeed ==
  /\ env = [deepgram |-> TRUE, gemini |-> TRUE, s3 |-> TRUE, multerLimit |-> MULTER_LIMIT_EDU]
  /\ bucket = {}
  /\ nextKey = 1
  /\ \E n \in 0..MaxFeedVideos :
       \E own \in [1..n -> Users], pub \in [1..n -> BOOLEAN] :
         videos = [i \in 1..n |-> FeedRow(i, own[i], pub[i])]
  /\ upl = [r \in UploadReqs |-> IdleUpload]
  /\ likes = {}
  /\ comments = {}
  /\ nextRowId = 1
  /\ soc = [r \in SocialReqs |-> IdleSocial]
  /\ users \in SUBSET Users
  /\ \A i \in 1..Len(videos) : VideoRowAccepted(videos[i].userId)
  /\ feed = IdleFeed
  /\ follows = NoFollows
  /\ fol = [r \in FollowReqs |-> IdleFollow]
  /\ areq = IdleAuth
  /\ dlikes = {}
  /\ dcomments = {}
  /\ LateIdle

NextFeed ==
  \/ FeedRequest
  \/ UserVideosRequest
  \/ BrowseStart
  \/ BrowseNext

SpecFeed == InitFeed /\ [][NextFeed]_vars

(***************************************************************************)
(* Properties of the upload pipeline (checked under Spec).                 *)
(***************************************************************************)
FileRequests == {r \in UploadReqs : upl[r].kind = "file"}

\* The measured duration, in tenths of a second, is above the limit.
OverLong(q) == q.dur10 > 10 * MAX_DURATION_SECONDS
OverSize(q) == q.size > MAX_FILE_SIZE_BYTES

\* validateVideo returned a result with isValid = false and the route
\* answered 400 without touching S3 or the videos table.
Rejected400(q) ==
  /\ q.pc = "responded"
  /\ q.status = 400
  /\ q.returned
  /\ ~q.result.isValid
  /\ q.calls.s3put = 0
  /\ q.calls.insert = 0

\* C1: a file that reaches the handler and is larger than 10 MB or measured
\* longer than 60 seconds (60.4 s included) never gets past the duration
\* probe: once probed it is rejected with isValid = false and 400, and it
\* causes no S3 upload and no video record.
C1_OverLimitRejected ==
  \A r \in FileRequests :
    LET q == upl[r]
    IN (OverSize(q) \/ OverLong(q)) /\ ~MulterRejects(q.size) /\ q.pc # "probe"
         => Rejected400(q)

\* C2: every request that persisted a video record holds a classification
\* with is_educational = true obtained before the insert; the demo upload,
\* which classifies nothing, persists no record.
C2_PersistedOnlyIfEducational ==
  /\ \A r \in UploadReqs :
       upl[r].status = 201 => upl[r].result.analysis = "educational"
  /\ demo.saved = 0

\* C3: with both AI services configured, a transcript classified as not
\* educational makes validateVideo return isValid = false; the route answers
\* 400 and creates neither an S3 object nor a video record.
C3_NotEducationalRejected ==
  \A r \in FileRequests :
    upl[r].result.analysis = "not_educational"
      => AiConfigured /\ Rejected400(upl[r])

C3_Witness ==
  \E r \in FileRequests :
    /\ upl[r].result.analysis = "not_educational"
    /\ upl[r].calls.classify = 1
    /\ upl[r].status = 400
    /\ upl[r].result.errors = <<"not_educational">>

\* Deepgram answered with a transcript that holds no speech.
NoSpeech(q) ==
  /\ q.calls.transcribe >= 1
  /\ ~q.dg.error
  /\ Trim(q.dg.transcript) = <<>>

\* C4: when the transcript is empty or whitespace only, the upload is
\* rejected with isValid = false, the classification API is never called,
\* and no S3 object or video record is created.
C4_NoSpeechRejected ==
  \A r \in FileRequests :
    NoSpeech(upl[r]) => Rejected400(upl[r]) /\ upl[r].calls.classify = 0

C4_Witness ==
  \E r \in FileRequests :
    /\ NoSpeech(upl[r])
    /\ upl[r].dg.transcript = <<" ">>
    /\ upl[r].status = 400

\* C5: a transcription or classification call that throws ends the upload
\* with an error response; validateVideo returns its result instead of
\* throwing, and neither an S3 object nor a video record is created.
C5_AiFailureFailsUpload ==
  \A r \in FileRequests :
    upl[r].failed \in {"transcribe", "classify"} => Rejected400(upl[r])

C5_Witness ==
  \E r \in FileRequests :
    /\ upl[r].failed = "classify"
    /\ upl[r].calls.transcribe = 1
    /\ upl[r].returned
    /\ upl[r].status = 400

\* C6: in the file-upload path validation precedes the S3 upload and the S3
\* upload precedes the insert: the S3 put runs only for a valid result, the
\* insert only after the put of the request's key succeeded, the persisted
\* record carries that key, and a failed put leaves no record.
C6_ValidateUploadPersist ==
  \A r \in FileRequests :
    LET q == upl[r]
    IN /\ (q.pc = "s3put" \/ q.calls.s3put >= 1) => q.returned /\ q.result.isValid
       /\ (q.pc = "insert" \/ q.calls.insert >= 1)
            => q.calls.s3put = 1 /\ q.key # NoKey /\ q.key \in bucket
       /\ q.status = 201
            => \E i \in 1..Len(videos) : videos[i].s3Key = q.key /\ q.key \in bucket
       /\ q.failed = "s3put" => q.calls.insert = 0 /\ q.status = 500

C6_Witness ==
  \E r \in FileRequests :
    /\ upl[r].status = 201
    /\ upl[r].calls.insert = 1
    /\ upl[r].key \in bucket
    /\ videos[Len(videos)].s3Key = upl[r].key

\* The external steps of one upload request, in the order of the code.
StepOrder ==
  [probe |-> 1, transcribe |-> 2, classify |-> 3, s3put |-> 4, insert |-> 5]
Steps == DOMAIN StepOrder

\* C7: within one upload request every external step is invoked at most
\* once; after a step failed the request is answered and no later step is
\* invoked.
C7_NoRetry ==
  \A r \in UploadReqs :
    LET q == upl[r]
    IN /\ \A st \in Steps : q.calls[st] <= 1
       /\ q.failed # "none"
            => /\ q.pc = "responded"
               /\ q.status >= 400
               /\ q.calls[q.failed] = 1
               /\ \A st \in Steps : StepOrder[st] > StepOrder[q.failed] => q.calls[st] = 0

C7_Witness ==
  \E r \in FileRequests :
    /\ upl[r].failed = "s3put"
    /\ upl[r].calls = [probe |-> 1, transcribe |-> 1, classify |-> 1, s3put |-> 1, insert |-> 0]
    /\ upl[r].status = 500

(***************************************************************************)
(* Properties of the like and view routes (checked under SpecSocial).      *)
(***************************************************************************)
LikeRequests == {r \in SocialReqs : soc[r].kind = "like"}

InsertedNotCounted(vid) ==
  {r \in LikeRequests : soc[r].vid = vid /\ soc[r].pc = "like_count"}
DeletedNotCounted(vid) ==
  {r \in LikeRequests : soc[r].vid = vid /\ soc[r].pc = "unlike_count" /\ soc[r].deleted > 0}
EmptyUnlikes(vid) ==
  {r \in LikeRequests : soc[r].vid = vid /\ soc[r].pc = "responded"
                          /\ soc[r].isLiked /\ soc[r].deleted = 0}

\* C9: concurrent likes race.  likeCount follows the like rows except for
\* unlike requests that read isVideoLiked = true and then deleted nothing
\* because a concurrent request had removed the row: each of them lowers
\* likeCount once more, so likeCount ends below the number of like rows.
C9_LikeCountDrift ==
  \A vid \in 1..Len(videos) :
    videos[vid].likeCount =
      Cardinality(LikesOf(vid)) - Cardinality(InsertedNotCounted(vid))
        + Cardinality(DeletedNotCounted(vid)) - Cardinality(EmptyUnlikes(vid))

\* Two requests of one user on one video both read isVideoLiked = true and
\* both completed: the count dropped by two, below zero, with no row left.
C9_Witness ==
  \E r1 \in LikeRequests, r2 \in LikeRequests :
    /\ r1 # r2
    /\ soc[r1].userId = soc[r2].userId
    /\ soc[r1].vid = soc[r2].vid
    /\ soc[r1].isLiked /\ soc[r2].isLiked
    /\ soc[r1].pc = "responded" /\ soc[r2].pc = "responded"
    /\ \A r \in SocialReqs : soc[r].pc \in {"idle", "responded"}
    /\ VideoExists(videos, soc[r1].vid)
    /\ videos[soc[r1].vid].likeCount = -1
    /\ LikesOf(soc[r1].vid) = {}

ViewsAnswered(vid) ==
  {r \in SocialReqs : soc[r].kind = "view" /\ soc[r].vid = vid /\ soc[r].pc = "responded"}

\* C10: the view count of an existing video equals its initial value (0)
\* plus the number of completed view requests on it, in every interleaving
\* with like and comment requests.
C10_NoLostView ==
  \A vid \in 1..Len(videos) :
    videos[vid].viewCount = Cardinality(ViewsAnswered(vid))

\* Two views are counted while a like request on the same video stands
\* between its INSERT and its count update.
C10_Witness ==
  \E vid \in 1..Len(videos), r \in LikeRequests :
    /\ videos[vid].viewCount = 2
    /\ soc[r].vid = vid
    /\ soc[r].pc = "like_count"

\* C14: a request that addresses a video by an id no video has (view, like
\* or comment) is answered 404.
C14_MissingVideo404 ==
  \A r \in SocialReqs :
    soc[r].pc = "responded" /\ ~VideoExists(videos, soc[r].vid)
      => soc[r].status = 404

(***************************************************************************)
(* Properties of the feed (checked under SpecFeed).                        *)
(***************************************************************************)
\* The ids of the rows of a listing.
Ids(rows) == [i \in 1..Len(rows) |-> rows[i].id]

\* A listing is newest first: creation times strictly decrease.
NewestFirst(rows) ==
  \A i \in 1..Len(rows), j \in 1..Len(rows) :
    i < j => CreatedAt(rows[i]) > CreatedAt(rows[j])

PublicVideos == {v \in Rows(videos) : v.isPublic}

\* Every page the client holds.
Listings == {feed.rows} \cup {feed.pages[i] : i \in 1..Len(feed.pages)}

\* C11: an answered GET /api/videos lists only stored videos with
\* isPublic = true, newest first, and at most `limit` of them (the limit the
\* route passes to getVideos); GET /api/videos/user/:userId lists only public
\* videos of that user; a video with isPublic = false is in no listing.
C11_FeedPublicNewestFirst ==
  /\ \A rows \in Listings :
       \A i \in 1..Len(rows) : rows[i] \in Rows(videos) /\ rows[i].isPublic
  /\ feed.kind \in {"feed", "browse"} /\ feed.status = 200
       => NewestFirst(feed.rows) /\ Len(feed.rows) <= feed.limit
  /\ feed.kind = "user" /\ feed.status = 200
       => /\ NewestFirst(feed.rows) /\ Len(feed.rows) <= feed.limit
          /\ \A i \in 1..Len(feed.rows) : feed.rows[i].userId = feed.owner

\* The feed was asked with limit 1 from a store that holds a private video
\* created after two public ones: the newer public video is the answer.
C11_Witness ==
  /\ feed.kind = "feed"
  /\ feed.status = 200
  /\ feed.limit = 1
  /\ Len(videos) = 3
  /\ ~videos[3].isPublic /\ videos[2].isPublic /\ videos[1].isPublic
  /\ Ids(feed.rows) = <<2>>

\* The rows of a sequence of pages, in order.
RECURSIVE Flatten(_)
Flatten(pages) == IF pages = <<>> THEN <<>> ELSE Head(pages) \o Flatten(Tail(pages))

\* Query parameters that are absent or not a number.
NotNumbers == {Absent, Sent(<<"a">>)}

\* C12: with the store unchanged, the pages a client gets with one limit L
\* at offsets 0, L, 2L, ... hold exactly L videos each except the last, and
\* together they are the public videos, newest first, each exactly once;
\* limit is 20 and offset 0 when the query parameter is absent or not a number.
C12_PagesCoverFeedOnce ==
  LET all == OrderByCreatedAtDesc(PublicVideos)
      got == Flatten(feed.pages)
  IN /\ feed.kind = "browse"
          => /\ \A i \in 1..Len(feed.pages) :
                  i < Len(feed.pages) => Len(feed.pages[i]) = feed.limit
             /\ Len(got) <= Len(all)
             /\ got = SubSeq(all, 1, Len(got))
             /\ feed.done => got = all
     /\ feed.kind \in {"feed", "browse"} /\ feed.limitQ \in NotNumbers => feed.limit = 20
     /\ feed.kind = "feed" /\ feed.offsetQ \in NotNumbers => feed.offset = 0

\* A client paged with limit 1 through a store of three videos, the second
\* of them private: two full pages and the empty last page.
C12_Witness ==
  /\ feed.kind = "browse"
  /\ feed.done
  /\ feed.limit = 1
  /\ Len(videos) = 3
  /\ ~videos[2].isPublic
  /\ Len(feed.pages) = 3
  /\ Ids(Flatten(feed.pages)) = <<3, 1>>

(***************************************************************************)
(* Properties of the videos table under requests that do not overlap       *)
(* (checked under SpecSeq).                                                *)
(***************************************************************************)
\* The fields of a video row other than its three counters.
Fixed(v) ==
  [id |-> v.id, userId |-> v.userId, s3Key |-> v.s3Key, duration |-> v.duration,
   isPublic |-> v.isPublic]

\* C13: no step deletes a video row, and no step changes a field of an
\* existing video row other than viewCount, likeCount and commentCount.
C13_VideosKeptAndOnlyCounted ==
  [][/\ Len(videos') >= Len(videos)
     /\ \A i \in 1..Len(videos) : Fixed(videos'[i]) = Fixed(videos[i])]_vars

\* A private video was created by a request, then viewed, liked and
\* commented: its three counters moved and it is still private.
C13_Witness ==
  /\ Len(videos) > NumVideos
  /\ LET v == videos[Len(videos)]
     IN /\ ~v.isPublic
        /\ v.viewCount = 1
        /\ v.likeCount = 1
        /\ v.commentCount = 1

\* The like requests of user u on video vid among the first n requests that
\* were answered 200.
LikesAnswered(u, vid, n) ==
  {p \in LikeRequests : /\ p <= n
                         /\ soc[p].userId = u /\ soc[p].vid = vid
                         /\ soc[p].pc = "responded" /\ soc[p].status = 200}

Odd(n) == n % 2 = 1

\* C19: with like requests that run alone, the n-th answered request of a
\* user on a video answers liked = true exactly when n is odd; once it is
\* answered, the like row exists exactly when it answered liked = true; the
\* user's like row and the video's likeCount depend only on the parity of the
\* number of answered requests, so two more requests restore both.
C19_LikeTogglesAlone ==
  /\ \A r \in LikeRequests :
       soc[r].pc = "responded" /\ soc[r].status = 200
         => LET mine == LikesAnswered(soc[r].userId, soc[r].vid, NumSocialReqs)
            IN /\ soc[r].liked <=> Odd(Cardinality(LikesAnswered(soc[r].userId, soc[r].vid, r)))
               /\ Quiet /\ (\A p \in mine : p <= r)
                    => (soc[r].liked <=> IsVideoLiked(soc[r].userId, soc[r].vid))
  /\ Quiet
       => \A vid \in 1..Len(videos) :
            LET likers == {u \in Users : Odd(Cardinality(LikesAnswered(u, vid, NumSocialReqs)))}
            IN /\ {l.userId : l \in LikesOf(vid)} = likers
               /\ videos[vid].likeCount = Cardinality(likers)

\* One user liked a video and then unliked it: the answers were liked = true
\* and liked = false, and no like row and a likeCount of 0 are left.
C19_Witness ==
  \E r1 \in LikeRequests, r2 \in LikeRequests :
    /\ r1 < r2
    /\ soc[r1].userId = soc[r2].userId
    /\ soc[r1].vid = soc[r2].vid
    /\ soc[r1].status = 200 /\ soc[r1].liked
    /\ soc[r2].status = 200 /\ ~soc[r2].liked /\ soc[r2].deleted = 1
    /\ Quiet
    /\ VideoExists(videos, soc[r1].vid)
    /\ LikesOf(soc[r1].vid) = {}
    /\ videos[soc[r1].vid].likeCount = 0

\* C20: when every like request received so far ran alone and was answered,
\* the likeCount of each video is the number of like rows that reference it.
C20_LikeCountIsRowCount ==
  Quiet => \A vid \in 1..Len(videos) :
             videos[vid].likeCount = Cardinality(LikesOf(vid))

\* Two users liked a video and one of them unliked it: one row, likeCount 1.
C20_Witness ==
  /\ Quiet
  /\ \E vid \in 1..Len(videos) :
       /\ \A r \in SocialReqs :
            soc[r].kind = "like" /\ soc[r].vid = vid /\ soc[r].status = 200
       /\ \E r \in SocialReqs : ~soc[r].liked
       /\ Cardinality(LikesOf(vid)) = 1
       /\ videos[vid].likeCount = 1

(***************************************************************************)
(* Properties of the follow route (checked under SpecFollow).              *)
(***************************************************************************)
\* Request r is answered in this step.
FollowAnswered(r) == fol[r].pc # "responded" /\ fol'[r].pc = "responded"

\* C17: a follow request with the caller's own id is answered 400 and leaves
\* the follows table as it is, and no row of the table has followerId =
\* followingId; a request with any other id is answered with `following`
\* equal to the caller's following state right after the request and
\* opposite to the state the request found.
C17_FollowToggle ==
  [][/\ \A u \in Users : follows'[<<u, u>>] = 0
     /\ \A r \in FollowReqs :
          FollowAnswered(r)
            => LET q == fol'[r]
               IN IF q.caller = q.target
                    THEN q.status = 400 /\ follows' = follows
                    ELSE /\ q.status = 200
                         /\ q.following <=> (follows'[<<q.caller, q.target>>] > 0)
                         /\ q.following <=> ~q.isFollowing]_vars

\* C17, amended: the same with "any other id" narrowed to the id of any
\* other registered user.
C17_FollowToggleRegistered ==
  [][/\ \A u \in Users : follows'[<<u, u>>] = 0
     /\ \A r \in FollowReqs :
          FollowAnswered(r)
            => LET q == fol'[r]
               IN IF q.caller = q.target
                    THEN q.status = 400 /\ follows' = follows
                    ELSE q.target \in users
                           => /\ q.status = 200
                              /\ q.following <=> (follows'[<<q.caller, q.target>>] > 0)
                              /\ q.following <=> ~q.isFollowing]_vars

\* One user asked to follow themselves and got 400, then followed the other
\* user and unfollowed them again.
C17_Witness ==
  \E r1 \in FollowReqs, r2 \in FollowReqs, r3 \in FollowReqs :
    /\ fol[r1].pc = "responded" /\ fol[r1].caller = fol[r1].target /\ fol[r1].status = 400
    /\ r2 < r3
    /\ fol[r2].caller = fol[r3].caller /\ fol[r2].target = fol[r3].target
    /\ fol[r2].caller # fol[r2].target
    /\ fol[r2].target \in users
    /\ fol[r2].status = 200 /\ fol[r2].following
    /\ fol[r3].status = 200 /\ ~fol[r3].following /\ fol[r3].isFollowing
    /\ follows = NoFollows

(***************************************************************************)
(* Properties of the authenticated route set (checked under SpecAuth).     *)
(***************************************************************************)
\* C15: a step taken for a request without a signed-in user leaves the
\* videos table and the DynamoDB likes and comments as they are, and
\* GET /api/videos and GET /api/videos/:id are not refused for lack of a
\* session.
C15_NoWriteWithoutUser ==
  [][areq'.route # "idle" /\ areq'.user = NoUser
       => /\ videos' = videos
          /\ dlikes' = dlikes
          /\ dcomments' = dcomments
          /\ areq'.route \in {"get_video", "get_videos"} => areq'.status # 401]_vars

\* C16: a comment leaves the comments table only in a step of a
\* DELETE /api/comments/:commentId request made by the comment's author.
C16_OnlyAuthorDeletes ==
  [][\A c \in dcomments :
       c \notin dcomments'
         => areq'.route = "delete_comment" /\ areq'.user = c.userId]_vars

\* The limits GET /api/videos/validation-rules serves, in bytes and in tenths
\* of a second.
ServedMaxBytes == ValidationRules.maxFileSizeMB * 1024 * 1024
ServedMaxDuration10 == 10 * ValidationRules.maxDurationSeconds

\* C18: the upload handler enforces the served limits.  Once the upload of
\* a signed-in user with a video file of an allowed type is answered, a file
\* within both served limits was not answered 400, and a file above the
\* served size or duration was answered with an error and has no object in
\* the bucket.
C18_ServedLimitsEnforced ==
  /\ areq.route = "upload"
  /\ areq.pc = "responded"
  /\ RequireAuth(areq.user)
  /\ areq.size > 0
  /\ ValidateMimeType(areq.mimetype).isValid
  => /\ areq.size <= ServedMaxBytes /\ areq.fileDur10 <= ServedMaxDuration10
          => areq.status # 400
     /\ areq.size > ServedMaxBytes \/ areq.fileDur10 > ServedMaxDuration10
          => areq.status >= 400 /\ areq.key = NoKey

(***************************************************************************)
(* Likes in DynamoDB under overlapping requests.                           *)
(***************************************************************************)
\* The like items of a video after a step.
LikeItemsAfter(vid) == {l \in dlikes' : l.videoId = vid}

\* C21: whatever the interleaving of like requests, the likes table holds at
\* most one item per (video, user) pair, and a toggle that ran alone answers
\* with a likeCount equal to the number of like items of its video after it.
C21_OneLikePerPair ==
  [][ /\ \A a, b \in dlikes' :
           (a.videoId = b.videoId /\ a.userId = b.userId) => a = b
      /\ \A r \in DynReqs :
           (dyn[r].pc = "like_count" /\ dyn'[r].pc = "responded" /\ dyn'[r].alone)
             => dyn'[r].likeCount = Cardinality(LikeItemsAfter(dyn[r].vid)) ]_vars

\* Two overlapping toggles of one user on one video were both answered, and
\* a toggle that ran alone answered with a positive count.
C21_Witness ==
  /\ \E p, q \in DynReqs :
       /\ p # q
       /\ dyn[p].route = "like" /\ dyn[q].route = "like"
       /\ dyn[p].status = 200 /\ dyn[q].status = 200
       /\ dyn[p].user = dyn[q].user /\ dyn[p].vid = dyn[q].vid
       /\ ~dyn[p].alone /\ ~dyn[q].alone
  /\ \E r \in DynReqs :
       dyn[r].route = "like" /\ dyn[r].status = 200 /\ dyn[r].alone /\ dyn[r].likeCount > 0

(***************************************************************************)
(* The order of the calls validateVideo makes.                             *)
(***************************************************************************)
\* The size check or the duration check of validateVideo fails for q.
BasicCheckFails(q) ==
  \/ q.size > MAX_FILE_SIZE_BYTES
  \/ GetVideoDuration(q.dur10) > MAX_DURATION_SECONDS

\* C22: validateVideo calls the transcription only when the size and the
\* duration check passed, calls the classification only after a transcription
\* call that returned a transcript which is not blank, and so never
\* classifies before it transcribed.
C22_CallOrder ==
  \A r \in UploadReqs :
    LET q == upl[r]
    IN /\ q.calls.transcribe > 0 => ~BasicCheckFails(q) /\ q.calls.probe = 1
       /\ q.calls.classify > 0
            => /\ q.calls.transcribe = 1
               /\ ~q.dg.error
               /\ Trim(q.dg.transcript) # <<>>

\* A file went through transcription and classification, and validateVideo
\* returned.
C22_Witness ==
  \E r \in FileRequests :
    /\ upl[r].calls.transcribe = 1
    /\ upl[r].calls.classify = 1
    /\ upl[r].returned

\* C23: every result validateVideo returned has isValid = TRUE exactly when
\* its list of errors is empty.
C23_ValidIffNoErrors ==
  \A r \in UploadReqs :
    upl[r].returned => (upl[r].result.isValid <=> upl[r].result.errors = <<>>)

(***************************************************************************)
(* The URL a stored video is played from.                                  *)
(***************************************************************************)
\* C24: for a video stored in S3, POST /api/get-video-url with the video's
\* s3Key and the videoUrl uploadVideo produced answers the CloudFront URL
\* https://<CLOUDFRONT_DOMAIN>/<s3Key> and not the S3 URL; a body with
\* neither s3Key nor videoUrl is answered 400.
C24_StoredVideoServedByCloudFront ==
  /\ urlq.kind = "stored"
       => /\ urlq.status = 200
          /\ urlq.url = HTTPS_PREFIX \o CLOUDFRONT_DOMAIN \o SLASH \o urlq.s3Key
          /\ urlq.url # urlq.videoUrl
  /\ (urlq.kind = "body" /\ urlq.s3Key = NoText /\ urlq.videoUrl = NoText)
       => urlq.status = 400

(***************************************************************************)
(* The S3 sync.                                                            *)
(***************************************************************************)
\* C25: whatever the interleaving of sync requests, no two video records
\* share an s3Key.
C25_OneRecordPerKey ==
  \A i, j \in 1..Len(videos) :
    (videos[i].s3Key # NoKey /\ videos[i].s3Key = videos[j].s3Key) => i = j

(***************************************************************************)
(* Comments in DynamoDB (checked under SpecAuth).                          *)
(***************************************************************************)
\* A text without a blank at either end.
Trimmed(t) == t = <<>> \/ (t[1] # " " /\ t[Len(t)] # " ")

\* The places of the first and of the last character of s that is not a
\* blank (s is not blank).
FirstInk(s) == CHOOSE k \in 1..Len(s) : s[k] # " " /\ \A m \in 1..(k - 1) : s[m] = " "
LastInk(s) == CHOOSE k \in 1..Len(s) : s[k] # " " /\ \A m \in (k + 1)..Len(s) : s[m] = " "

\* t is what is left of the text s without the blanks at its ends.
TrimmedFrom(t, s) == t = SubSeq(s, FirstInk(s), LastInk(s))

\* The content of a comment request is not blank and at most 500 characters
\* long.
ContentAcceptable(content) ==
  /\ \E k \in 1..Len(content) : content[k] # " "
  /\ Len(content) <= MAX_COMMENT_LENGTH

\* A step that answers a comment request of a signed-in user.
CommentAnswered ==
  /\ areq'.route = "comment"
  /\ areq'.user # NoUser
  /\ areq.pc # "responded"
  /\ areq'.pc = "responded"

\* C26: POST /api/videos/:id/comments stores a comment only for a content
\* that is not blank and at most 500 characters long and for a video that
\* exists; otherwise it answers 400 (content) or 404 (video) and stores
\* nothing.  Every stored comment is trimmed, not empty and at most 500
\* characters long.
C26_CommentStoredOnlyIfAcceptable ==
  [][ /\ \A c \in dcomments' :
           /\ Trimmed(c.content)
           /\ Len(c.content) > 0
           /\ Len(c.content) <= MAX_COMMENT_LENGTH
      /\ CommentAnswered =>
           IF ~ContentAcceptable(areq'.content)
             THEN areq'.status = 400 /\ dcomments' = dcomments
           ELSE IF ~VideoExists(videos, areq'.vid)
             THEN areq'.status = 404 /\ dcomments' = dcomments
           ELSE /\ areq'.status = 201
                /\ \E c \in dcomments' \ dcomments :
                     /\ c.videoId = areq'.vid
                     /\ c.userId = areq'.user
                     /\ TrimmedFrom(c.content, areq'.content) ]_vars

\* A comment sent between blanks was stored without them, and answered 201.
C26_Witness ==
  /\ areq.route = "comment"
  /\ areq.status = 201
  /\ areq.content = <<" ", "a", " ">>
  /\ \E c \in dcomments : c.id = areq.cid /\ c.content = <<"a">>

(***************************************************************************)
(* The comment counter of the relational store (checked under SpecComment).*)
(***************************************************************************)
\* Every createComment call that started has completed.
CommentsCompleted == \A r \in SocialReqs : soc[r].pc # "comment_count"

\* C27: whenever every createComment call has completed, in whatever order
\* their statements ran, commentCount of each video equals the number of
\* comment records that reference the video.
C27_CommentCountIsRowCount ==
  CommentsCompleted
    => \A vid \in 1..Len(videos) :
         videos[vid].commentCount = Cardinality(CommentsOf(vid))

\* Two comments on one video were stored and answered.
C27_Witness ==
  /\ CommentsCompleted
  /\ \E p, q \in SocialReqs :
       /\ p # q
       /\ soc[p].kind = "comment" /\ soc[q].kind = "comment"
       /\ soc[p].status = 201 /\ soc[q].status = 201
       /\ soc[p].vid = soc[q].vid
       /\ videos[soc[p].vid].commentCount = 2

(***************************************************************************)
(* References to videos (checked under SpecAuth).                          *)
(***************************************************************************)
\* C28: in every reachable state every like and every comment the DynamoDB
\* routes stored references a video that exists.
C28_LikesAndCommentsReferenceVideos ==
  /\ \A l \in dlikes : VideoExists(videos, l.videoId)
  /\ \A c \in dcomments : VideoExists(videos, c.videoId)

\* A like and a comment on the same video are stored, and a request that
\* named a video which does not exist was answered 404.
C28_Witness ==
  /\ \E l \in dlikes, c \in dcomments : l.videoId = c.videoId
  /\ areq.route \in {"like", "comment"}
  /\ areq.status = 404
  /\ ~VideoExists(videos, areq.vid)


(***************************************************************************)
(* Playback in the client feed (checked under SpecClient).                 *)
(***************************************************************************)
\* C29: after every event and its effects, exactly the item whose index is
\* currentIndex is active, an item that is not active has isPlaying = FALSE,
\* and togglePlay changes isPlaying of the active item only.
C29_OnlyActiveItemPlays ==
  [][ /\ \A id \in ClientVideoIds :
           cl'.items[id].mounted =>
             /\ cl'.items[id].isActive <=> IndexOf(cl'.list, id) = cl'.currentIndex
             /\ ~cl'.items[id].isActive => ~cl'.items[id].isPlaying
      /\ cl'.last[1] = "toggle" =>
           \A id \in ClientVideoIds :
             cl'.items[id].isPlaying # cl.items[id].isPlaying
               => cl.items[id].isActive /\ id = cl'.last[2] ]_vars

\* Some session's like request has just been answered with success.
LikeAnswered(s) ==
  ses[s].req # NoRequest /\ ses'[s].req = NoRequest /\ ses'[s].status = 200

\* No like request stands between the two statements of likeVideo or of
\* unlikeVideo after the step.
NoLikeHalfDone ==
  \A p \in SocialReqs :
    soc'[p].pc \notin {"like_insert", "like_count", "unlike_delete", "unlike_count"}

\* The user's like of the session's video exists on the server after the step.
ServerLiked(s) ==
  \E l \in likes' : l.userId = DIRECT_USER /\ l.videoId = ses'[s].vid

\* C30: after each successful like request of a session, the liked state and
\* the like count its VideoItem shows equal the server's state for the user
\* and the video, also when another session of the same user toggled the
\* like in between.  The comparison is made when the answer arrives, in the
\* case that the answer still tells the server's like state and no other
\* like request is half done.
C30_ShownLikeIsServerLike ==
  [][\A s \in ClientSessions :
       LikeAnswered(s) /\ NoLikeHalfDone /\ (ses'[s].answer <=> ServerLiked(s)) =>
         /\ ses'[s].liked = ServerLiked(s)
         /\ ses'[s].likeCount = videos'[ses'[s].vid].likeCount]_vars

====
